---- MODULE Spec2Model ----
(***************************************************************************)
(* Beat tracking and tempo estimation of brookcs3/lb.                      *)
(*                                                                         *)
(* The analysis functions are pure: a call takes its arguments and returns *)
(* a value or throws.  The state is the call being made (call), where it   *)
(* stands (pc), what it returned (ret) and, while the beat tracker runs,   *)
(* its locals (run): the envelope it tracks, the tempo it uses, the local  *)
(* score and the arrays of the forward pass.                               *)
(*                                                                         *)
(* Numbers.  The code computes in IEEE doubles and stores arrays as        *)
(* Float32Array.  Here a real number x is the integer x * Unit, truncated  *)
(* (five decimal places); products and quotients are computed in pieces    *)
(* that stay below 2^31.  Onset envelopes hold small naturals (onset       *)
(* strength in whole units), frame indices and lags are integers.          *)
(* Arrays are sequences; the element the code calls a[i] is At(a, i).      *)
(***************************************************************************)
EXTENDS Integers, Sequences, FiniteSets, TLC

VARIABLES call, pc, ret, run, page, worker

vars == <<call, pc, ret, run, page, worker>>

-----------------------------------------------------------------------------
(* Bounds of the explored inputs.                                          *)

MaxLen == 4
MaxVal == 1

\* the longest envelope and the largest beat period (in frames) explored
MaxFrames == 260

\* the files chosen on the demo page, the Analyze runs in flight at once, the
\* timer yields of one run and the interval timers alive at once
MaxFiles == 2
MaxRuns == 2
MaxYields == 1
MaxTimers == 2

\* the files selected on the worker-based page
MaxPosts == 3

\* the windows of one estimateDynamicTempo call
MaxWindows == 6

-----------------------------------------------------------------------------
(* Fixed-point arithmetic standing for the code's floating point.          *)

Unit == 100000
HalfUnit == 1000
LN2 == 69315

Abs(x) == IF x < 0 THEN -x ELSE x
Sign(x) == IF x < 0 THEN -1 ELSE 1
Max2(a, b) == IF a >= b THEN a ELSE b
Min2(a, b) == IF a <= b THEN a ELSE b

\* a * b for a, b >= 0 scaled by Unit
MulAbs(a, b) ==
  LET ah == a \div HalfUnit
      al == a % HalfUnit
      bh == b \div HalfUnit
      bl == b % HalfUnit
  IN  ah * bh * 10 + (ah * bl + al * bh + (al * bl) \div HalfUnit) \div 100

Mul(a, b) == Sign(a) * Sign(b) * MulAbs(Abs(a), Abs(b))

RECURSIVE LongDiv(_, _, _, _)
LongDiv(r, b, k, q) ==
  IF k = 0 THEN q
  ELSE LongDiv((r * 10) % b, b, k - 1, q * 10 + (r * 10) \div b)

\* a / b for integers (or equally scaled numbers) a and b > 0, scaled by Unit
Ratio(a, b) == Sign(a) * LongDiv(Abs(a) % b, b, 5, Abs(a) \div b)

\* Math.round of the rational a / b, b > 0 (halves round up)
RoundDiv(a, b) == (2 * a + b) \div (2 * b)

\* Math.ceil of the rational a / b, b > 0
CeilDiv(a, b) == -((-a) \div b)

\* the largest r in lo..hi-1 with r * r <= x, the product taken exactly when
\* x is small and to the resolution otherwise
RECURSIVE SqrtSearch(_, _, _)
SqrtSearch(x, lo, hi) ==
  IF hi - lo <= 1 THEN lo
  ELSE LET mid == (lo + hi) \div 2
           below == IF x <= 20000 THEN mid * mid <= x * Unit
                    ELSE MulAbs(mid, mid) <= x
       IN  IF below THEN SqrtSearch(x, mid, hi) ELSE SqrtSearch(x, lo, mid)

\* Math.sqrt
Sqrt(x) == IF x <= 20000 THEN SqrtSearch(x, 0, 44722) ELSE SqrtSearch(x, 0, 146 * Unit)

RECURSIVE ExpSeries(_, _)
ExpSeries(r, k) ==
  IF k > 12 THEN Unit
  ELSE Unit - Mul(r, ExpSeries(r, k + 1)) \div k

RECURSIVE Halve(_, _)
Halve(x, n) == IF n = 0 THEN x ELSE Halve(x \div 2, n - 1)

\* Math.exp(-x) for x >= 0
ExpNeg(x) ==
  IF x >= 20 * Unit THEN 0
  ELSE Halve(ExpSeries(x % LN2, 1), x \div LN2)

RECURSIVE AtanhSeries(_, _, _)
AtanhSeries(z2, term, k) ==
  IF k > 11 THEN 0
  ELSE term \div k + AtanhSeries(z2, Mul(term, z2), k + 2)

RECURSIVE LnNorm(_, _)
LnNorm(x, e) ==
  IF x >= 2 * Unit THEN LnNorm(x \div 2, e + 1)
  ELSE IF x < Unit THEN LnNorm(x * 2, e - 1)
  ELSE LET z == Ratio(x - Unit, x + Unit)
       IN  e * LN2 + 2 * AtanhSeries(Mul(z, z), z, 1)

\* Math.log(x) for x > 0
Ln(x) == LnNorm(x, 0)

-----------------------------------------------------------------------------------------------------------------------------------------------------
(* Arrays.  Loops over an array that only accumulate are evaluated by      *)
(* halving the index range, which leaves their result unchanged.           *)

At(a, i) == a[i + 1]

\* a.slice(from, to)
Slice(a, from, to) == SubSeq(a, from + 1, to)

RECURSIVE SumRange(_, _, _)
SumRange(a, lo, hi) ==
  IF lo > hi THEN 0
  ELSE IF lo = hi THEN a[lo]
  ELSE LET mid == (lo + hi) \div 2
       IN  SumRange(a, lo, mid) + SumRange(a, mid + 1, hi)

SumSeq(a) == SumRange(a, 1, Len(a))

RECURSIVE MaxRange(_, _, _)
MaxRange(a, lo, hi) ==
  IF lo = hi THEN a[lo]
  ELSE LET mid == (lo + hi) \div 2
       IN  Max2(MaxRange(a, lo, mid), MaxRange(a, mid + 1, hi))

\* Math.max(...a) of a non-empty array
MaxSeq(a) == MaxRange(a, 1, Len(a))

RECURSIVE IndicesRange(_, _, _)
IndicesRange(flags, lo, hi) ==
  IF lo > hi THEN <<>>
  ELSE IF lo = hi THEN (IF flags[lo] THEN <<lo - 1>> ELSE <<>>)
  ELSE LET mid == (lo + hi) \div 2
       IN  IndicesRange(flags, lo, mid) \o IndicesRange(flags, mid + 1, hi)

\* the indices i (from 0) with flags[i] true, ascending
IndicesWhere(flags) == IndicesRange(flags, 1, Len(flags))

\* Array.prototype.sort is stable: items ordered by key, equal keys keeping
\* their order.  items.sort((a, b) => key(a) - key(b))
SortAscBy(items, keys) ==
  LET n == Len(items)
      Before(j, k) == keys[j] < keys[k] \/ (keys[j] = keys[k] /\ j < k)
      rank == [k \in 1..n |-> Cardinality({j \in 1..n : Before(j, k)})]
  IN  [r \in 1..n |-> items[CHOOSE k \in 1..n : rank[k] = r - 1]] \o <<>>

\* items.sort((a, b) => key(b) - key(a))
SortDescBy(items, keys) == SortAscBy(items, [k \in 1..Len(keys) |-> -keys[k]])

SortAsc(a) == SortAscBy(a, a)

-----
(* BeatTracker: the dynamic-programming beat tracker.                      *)

_hasAnyValue(arr) == \E i \in 1..Len(arr) : arr[i] # 0

\* onsets.map(o => o / (std + 1e-10)); 1e-10 is below the resolution
_normalizeOnsets(onsets) ==
  LET n == Len(onsets)
      mean == Ratio(SumSeq(onsets), n)
      sq == [i \in 1..n |-> Mul(onsets[i] * Unit - mean, onsets[i] * Unit - mean)]
      variance == SumSeq(sq \o <<>>) \div (n - 1)
      std == Sqrt(variance)
  IN  [i \in 1..n |-> Ratio(onsets[i] * Unit, std)] \o <<>>

\* Math.exp(-0.5 * Math.pow((j * 32.0) / fpb, 2))
GaussWeight(j, fpb) == ExpNeg(Ratio((j * 32) * (j * 32), 2 * fpb * fpb))

\* localScore[i] = sum over j of window[j] * onsetEnvelope[i - windowSize + j],
\* the indices outside the envelope left out.  A weight is positive down to
\* the smallest Float32, exp(-103); a sum of positive terms that is below
\* the resolution here is kept as the smallest positive number, so that it
\* compares with zero as the code's does.
ConvolveAt(onsetEnvelope, window, windowSize, i) ==
  LET Idx(j) == i - windowSize + (j - 1)
      Inside(j) == Idx(j) >= 0 /\ Idx(j) < Len(onsetEnvelope)
      sum == SumRange([j \in 1..Len(window) |->
                         IF Inside(j) THEN Mul(window[j], At(onsetEnvelope, Idx(j)))
                         ELSE 0],
                      1, Len(window))
      Offset(j) == (j - 1 - windowSize) * 32
      tiny == \E j \in 1..Len(window) :
                /\ Inside(j)
                /\ At(onsetEnvelope, Idx(j)) > 0
                /\ Offset(j) * Offset(j) < 2 * 103 * windowSize * windowSize
  IN  IF sum = 0 /\ tiny THEN 1 ELSE sum

GaussWindow(fpb) ==
  [k \in 1..(2 * fpb + 1) |-> GaussWeight(k - 1 - fpb, fpb)] \o <<>>

_beatLocalScore(onsetEnvelope, framesPerBeat) ==
  LET N == Len(onsetEnvelope)
  IN  IF Len(framesPerBeat) = 1
      THEN \* static tempo: one window
           LET fpb == framesPerBeat[1]
               windowSize == fpb
               window == GaussWindow(fpb)
           IN  [k \in 1..N |-> ConvolveAt(onsetEnvelope, window, windowSize, k - 1)] \o <<>>
      ELSE \* time-varying tempo: the window of the frame's own tempo
           [k \in 1..N |->
              LET fpb == At(framesPerBeat, Min2(k - 1, Len(framesPerBeat) - 1))
              IN  ConvolveAt(onsetEnvelope, GaussWindow(fpb), fpb, k - 1)] \o <<>>

\* Math.log(Math.max(1, k)) for the whole numbers k = 0..MaxFrames, each
\* computed once: the logarithm of k is At(LogTable, k)
LogTable == [k \in 1..(MaxFrames + 1) |-> Ln(Max2(1, k - 1) * Unit)] \o <<>>

\* cumScore[loc] - tightness * (log(interval) - log(fpb))^2
TransitionScore(cumScore, i, fpb, tightness, loc) ==
  LET interval == i - loc
      logInterval == At(LogTable, Max2(1, interval))
      logFpb == At(LogTable, Max2(1, fpb))
  IN  At(cumScore, loc) - tightness * Mul(logInterval - logFpb, logInterval - logFpb)

\* the search over the predecessors loc = lo..hi of frame i, as
\* <<bestScore, beatLocation>>: the first loc with the highest score wins
\* (score > bestScore), and beatLocation is -1 when no loc is scored
RECURSIVE SearchLoc(_, _, _, _, _, _)
SearchLoc(cumScore, i, fpb, tightness, lo, hi) ==
  IF lo > hi THEN <<0, -1>>
  ELSE IF lo = hi THEN <<TransitionScore(cumScore, i, fpb, tightness, lo), lo>>
  ELSE LET mid == (lo + hi) \div 2
           left == SearchLoc(cumScore, i, fpb, tightness, lo, mid)
           right == SearchLoc(cumScore, i, fpb, tightness, mid + 1, hi)
       IN  IF right[1] > left[1] THEN right ELSE left

\* Math.max(0, i - Math.round(2.5 * fpb))
SearchStart(i, fpb) == Max2(0, i - RoundDiv(5 * fpb, 2))

\* Math.max(0, i - Math.round(0.5 * fpb))
SearchEnd(i, fpb) == Max2(0, i - RoundDiv(fpb, 2))

\* for (loc = searchStart; loc <= searchEnd; loc++) { if (loc >= i) break; ... }:
\* the last loc that is scored
LastScored(i, fpb) == Min2(SearchEnd(i, fpb), i - 1)

\* DPStep with every frame linked to itself
DPStep_m(dp, localScore, framesPerBeat, tightness, scoreThresh, i) ==
  [backlink |-> Append(dp.backlink, i),
   cumScore |-> Append(dp.cumScore, At(localScore, i)),
   firstBeat |-> FALSE]

\* one iteration of the forward pass, for frame i >= 1
DPStep(dp, localScore, framesPerBeat, tightness, scoreThresh, i) ==
  LET tv == IF Len(framesPerBeat) > 1 THEN 1 ELSE 0
      fpb == At(framesPerBeat, tv * Min2(i, Len(framesPerBeat) - 1))
      best == SearchLoc(dp.cumScore, i, fpb, tightness, SearchStart(i, fpb),
                        LastScored(i, fpb))
      bestScore == best[1]
      beatLocation == best[2]
      cum == IF beatLocation >= 0 THEN At(localScore, i) + bestScore
             ELSE At(localScore, i)
      unarmed == dp.firstBeat /\ At(localScore, i) < scoreThresh
  IN  [backlink |-> Append(dp.backlink, IF unarmed THEN -1 ELSE beatLocation),
       cumScore |-> Append(dp.cumScore, cum),
       firstBeat |-> unarmed]

_localMax(x) ==
  LET n == Len(x)
  IN  [k \in 1..n |->
         IF k > 1 /\ k < n THEN x[k] > x[k - 1] /\ x[k] > x[k + 1]
         ELSE IF n = 1 THEN TRUE
         ELSE IF k = 1 THEN x[1] > x[2]
         ELSE x[n] > x[n - 1]] \o <<>>

\* LastAbove without the walk back from the end
LastAbove_m(cumScore, localMax, median, i) == Len(cumScore) - 1

\* the last local maximum with cumScore[i] >= 0.5 * median, walking back
\* from frame i; the last frame when there is none
RECURSIVE LastAbove(_, _, _, _)
LastAbove(cumScore, localMax, median, i) ==
  IF i < 0 THEN Len(cumScore) - 1
  ELSE IF At(localMax, i) /\ 2 * At(cumScore, i) >= median THEN i
  ELSE LastAbove(cumScore, localMax, median, i - 1)

_lastBeat(cumScore) ==
  LET localMax == _localMax(cumScore)
      maxima == IndicesWhere(localMax)
      validScores == SortAsc([k \in 1..Len(maxima) |-> At(cumScore, maxima[k])] \o <<>>)
  IN  IF Len(validScores) = 0 THEN Len(cumScore) - 1
      ELSE LastAbove(cumScore, localMax, At(validScores, Len(validScores) \div 2),
                     Len(cumScore) - 1)

\* while (n >= 0) { beats[n] = true; n = backlinks[n] }
RECURSIVE _dpBacktrack(_, _, _)
_dpBacktrack(backlinks, n, beats) ==
  IF n < 0 THEN beats
  ELSE _dpBacktrack(backlinks, At(backlinks, n), [beats EXCEPT ![n + 1] = TRUE])

\* clears weak beats from index i in direction dir until the first strong beat
RECURSIVE Suppress(_, _, _, _, _, _)
Suppress(localScore, beats, trimmed, threshold, i, dir) ==
  IF i < 0 \/ i >= Len(beats) THEN trimmed
  ELSE IF At(beats, i) /\ At(localScore, i) <= threshold
       THEN Suppress(localScore, beats, [trimmed EXCEPT ![i + 1] = FALSE],
                     threshold, i + dir, dir)
  ELSE IF At(beats, i) THEN trimmed
  ELSE Suppress(localScore, beats, trimmed, threshold, i + dir, dir)

\* _trimBeats without the loop over the end of the sequence
_trimBeats_m(localScore, beats) ==
  LET beatIndices == IndicesWhere(beats)
  IN  IF Len(beatIndices) = 0 THEN beats
      ELSE LET sq == [k \in 1..Len(beatIndices) |->
                        Mul(At(localScore, beatIndices[k]), At(localScore, beatIndices[k]))]
               rms == Sqrt(SumSeq(sq \o <<>>) \div Len(beatIndices))
           IN  Suppress(localScore, beats, beats, rms \div 2, 0, 1)

\* _trimBeats(localScore, beats): weak beats cleared from both ends
_trimBeats(localScore, beats) ==
  LET beatIndices == IndicesWhere(beats)
  IN  IF Len(beatIndices) = 0 THEN beats
      ELSE LET sq == [k \in 1..Len(beatIndices) |->
                        Mul(At(localScore, beatIndices[k]), At(localScore, beatIndices[k]))]
               rms == Sqrt(SumSeq(sq \o <<>>) \div Len(beatIndices))
               threshold == rms \div 2
               front == Suppress(localScore, beats, beats, threshold, 0, 1)
           IN  Suppress(localScore, beats, front, threshold, Len(beats) - 1, -1)

\* _beatTrackerError with the test b < 0 in place of b <= 0
_beatTrackerError_m(bpm, tightness) ==
  IF \E k \in 1..Len(bpm) : bpm[k] < 0 THEN "BPM must be strictly positive"
  ELSE IF tightness <= 0 THEN "Tightness must be strictly positive"
  ELSE ""

\* _beatTrackerError reporting a bad tightness as a bad BPM
_beatTrackerErrorOne_m(bpm, tightness) ==
  IF \E k \in 1..Len(bpm) : bpm[k] <= 0 THEN "BPM must be strictly positive"
  ELSE IF tightness <= 0 THEN "BPM must be strictly positive"
  ELSE ""

\* the checks that open _beatTracker; "" when the arguments pass
_beatTrackerError(bpm, tightness) ==
  IF \E k \in 1..Len(bpm) : bpm[k] <= 0 THEN "BPM must be strictly positive"
  ELSE IF tightness <= 0 THEN "Tightness must be strictly positive"
  ELSE ""

\* bpm.map(b => Math.round((frameRate * 60.0) / b))
FramesPerBeat(bpm, frameRate) ==
  [k \in 1..Len(bpm) |-> RoundDiv(frameRate * 60, bpm[k])] \o <<>>

-----------------------------------------------------------------------------
(* BeatTracker.tempoEstimation.                                            *)

minBpm == 30
maxBpm == 300

\* Math.round(x) of a number x >= 0
Round(x) == ((x + Unit \div 2) \div Unit) * Unit

\* Math.round(x * 10) / 10
RoundTenth(x) == ((x + Unit \div 20) \div (Unit \div 10)) * (Unit \div 10)

\* autocorr[lagIdx] for lag = minLag + lagIdx
AutocorrAt(onsetEnvelope, lag) ==
  LET n == Len(onsetEnvelope) - lag
      corr == SumRange([i \in 1..n |-> onsetEnvelope[i] * onsetEnvelope[i + lag]], 1, n)
      norm == SumRange([i \in 1..n |-> onsetEnvelope[i] * onsetEnvelope[i]], 1, n)
  IN  IF norm > 0 THEN Ratio(corr, norm) ELSE 0

Autocorr(onsetEnvelope, minLag, maxLag) ==
  [k \in 1..(maxLag - minLag + 1) |-> AutocorrAt(onsetEnvelope, minLag + k - 1)] \o <<>>

\* the peaks {index, value, prominence} of signal, most prominent first
_findPeaksWithProminence(signal, minProminence) ==
  LET n == Len(signal)
      maxVal == MaxSeq(signal)
      Prominence(i) == At(signal, i) - Min2(At(signal, i - 1), At(signal, i + 1))
      isPeak == [k \in 1..n |->
                   LET i == k - 1
                   IN  /\ i >= 1 /\ i < n - 1
                       /\ At(signal, i) > At(signal, i - 1)
                       /\ At(signal, i) > At(signal, i + 1)
                       /\ Prominence(i) >= Mul(minProminence, maxVal)] \o <<>>
      found == IndicesWhere(isPeak)
      peaks == [k \in 1..Len(found) |->
                  [index |-> found[k], value |-> At(signal, found[k]),
                   prominence |-> Prominence(found[k])]] \o <<>>
  IN  SortDescBy(peaks, [k \in 1..Len(peaks) |-> peaks[k].prominence])

\* keeps a local maximum only when it lies more than 10 frames after the peak
\* kept last
RECURSIVE KeepDistant(_, _, _)
KeepDistant(maxima, k, peaks) ==
  IF k > Len(maxima) THEN peaks
  ELSE KeepDistant(maxima, k + 1,
                   IF Len(peaks) = 0 \/ maxima[k] - peaks[Len(peaks)] > 10
                   THEN Append(peaks, maxima[k]) ELSE peaks)

\* threshold = 0.3: onsetEnvelope[i] > 0.3 * maxVal
_findOnsetPeaks(onsetEnvelope) ==
  LET n == Len(onsetEnvelope)
      maxVal == MaxSeq(onsetEnvelope)
      isMax == [k \in 1..n |->
                  LET i == k - 1
                  IN  /\ i >= 1 /\ i < n - 1
                      /\ 10 * At(onsetEnvelope, i) > 3 * maxVal
                      /\ At(onsetEnvelope, i) > At(onsetEnvelope, i - 1)
                      /\ At(onsetEnvelope, i) > At(onsetEnvelope, i + 1)] \o <<>>
  IN  KeepDistant(IndicesWhere(isMax), 1, <<>>)

\* a relationship slot is <<>> (null) or <<candidate>>
Better(slot, candidate) ==
  IF slot = <<>> \/ candidate.score > slot[1].score THEN <<candidate>> ELSE slot

RECURSIVE RelateFrom(_, _, _)
RelateFrom(candidates, k, rel) ==
  IF k > Len(candidates) THEN rel
  ELSE LET candidate == candidates[k]
           ratio == Ratio(candidate.bpm, candidates[1].bpm)
           Near(target) == Abs(ratio - target) < 5000
       IN  RelateFrom(candidates, k + 1,
             IF Near(50000)
               THEN [rel EXCEPT !.half_time = Better(@, candidate)]
             ELSE IF Near(200000)
               THEN [rel EXCEPT !.double_time = Better(@, candidate)]
             ELSE IF Near(66666)
               THEN [rel EXCEPT !.two_thirds = Better(@, candidate)]
             ELSE IF Near(150000)
               THEN [rel EXCEPT !.three_halves = Better(@, candidate)]
             ELSE IF Near(133333)
               THEN [rel EXCEPT !.four_thirds = Better(@, candidate)]
             ELSE rel)

_detectTempoRelationships(candidates) ==
  RelateFrom(candidates, 1,
             [base |-> <<candidates[1]>>, half_time |-> <<>>, double_time |-> <<>>,
              two_thirds |-> <<>>, three_halves |-> <<>>, four_thirds |-> <<>>])

\* candidates.find(c => Math.abs(c.bpm - target) < 3), as <<>> or <<c>>
FindNear(candidates, target, tol) ==
  LET hits == {k \in 1..Len(candidates) : Abs(candidates[k].bpm - target) < tol}
  IN  IF hits = {} THEN <<>>
      ELSE <<candidates[CHOOSE k \in hits : \A h \in hits : k <= h]>>

commonDanceTempos == {98, 99, 100, 108, 110, 120, 124, 126, 128, 130, 135, 140, 172, 174}

\* <<>> for null, else <<bpm>>
_resolveTempoConfusion(candidates, relationships) ==
  IF Len(candidates) < 2 THEN <<>>
  ELSE
    LET baseBpm == candidates[1].bpm
        baseScore == IF candidates[1].originalScore # 0
                     THEN candidates[1].originalScore ELSE candidates[1].score
        \* one of the patterns 1-3: base in [lo, hi], a candidate near base * k
        \* whose raw score exceeds baseScore * f
        Pattern(lo, hi, k, f) ==
          IF baseBpm >= lo * Unit /\ baseBpm <= hi * Unit
          THEN LET match == FindNear(candidates, Mul(baseBpm, k), 3 * Unit)
               IN  IF match # <<>> /\ match[1].originalScore > Mul(baseScore, f)
                   THEN <<match[1].bpm>> ELSE <<>>
          ELSE <<>>
        p1 == Pattern(85, 87, 125000, 60000)
        p2 == Pattern(92, 95, 150000, 50000)
        p3 == Pattern(77, 80, 126000, 60000)
        \* pattern 4: a common dance tempo among candidates 2..4 with a raw
        \* score above 70% of the base's
        strong == {i \in 2..Min2(4, Len(candidates)) :
                     /\ \E t \in commonDanceTempos :
                           Abs(candidates[i].bpm - t * Unit) < 2 * Unit
                     /\ candidates[i].originalScore > Mul(baseScore, 70000)}
    IN  IF p1 # <<>> THEN p1
        ELSE IF p2 # <<>> THEN p2
        ELSE IF p3 # <<>> THEN p3
        ELSE IF strong # {}
          THEN <<candidates[CHOOSE i \in strong : \A h \in strong : i <= h].bpm>>
        ELSE <<>>

\* the weights of _selectBestTempo's table of common tempos
commonTempoWeights ==
  << <<70, 110000>>, <<85, 120000>>, <<90, 120000>>, <<95, 110000>>, <<98, 110000>>,
     <<99, 110000>>, <<100, 130000>>, <<105, 120000>>, <<108, 120000>>,
     <<110, 120000>>, <<115, 110000>>, <<120, 150000>>, <<122, 130000>>,
     <<124, 140000>>, <<126, 140000>>, <<128, 150000>>, <<130, 130000>>,
     <<135, 120000>>, <<140, 140000>>, <<145, 120000>>, <<150, 110000>>,
     <<160, 120000>>, <<170, 110000>>, <<172, 120000>>, <<174, 130000>>,
     <<180, 110000>> >>

\* commonTempos.find(ct => Math.abs(ct.bpm - bpm) < 2), as <<>> or <<weight>>
CommonMatch(bpm) ==
  LET hits == {k \in 1..Len(commonTempoWeights) :
                 Abs(commonTempoWeights[k][1] * Unit - bpm) < 2 * Unit}
  IN  IF hits = {} THEN <<>>
      ELSE <<commonTempoWeights[CHOOSE k \in hits : \A h \in hits : k <= h][2]>>

\* allCandidates: the candidates, then every relationship that lies at least
\* 1 BPM from all of them
RECURSIVE WithRelated(_, _)
WithRelated(allCandidates, slots) ==
  IF slots = <<>> THEN allCandidates
  ELSE LET rel == Head(slots)
       IN  WithRelated(
             IF rel # <<>> /\ FindNear(allCandidates, rel[1].bpm, Unit) = <<>>
             THEN Append(allCandidates, rel[1]) ELSE allCandidates,
             Tail(slots))

_selectBestTempo(candidates, relationships, targetBpm) ==
  LET allCandidates ==
        WithRelated(candidates,
                    <<relationships.base, relationships.half_time,
                      relationships.double_time, relationships.two_thirds,
                      relationships.three_halves, relationships.four_thirds>>)
      considered == SubSeq(allCandidates, 1, Min2(10, Len(allCandidates)))
      Adjusted(candidate) ==
        LET commonMatch == CommonMatch(candidate.bpm)
            s1 == IF commonMatch # <<>> THEN Mul(candidate.score, commonMatch[1])
                  ELSE candidate.score
            s2 == IF /\ relationships.half_time # <<>>
                     /\ Abs(candidate.bpm - relationships.half_time[1].bpm) < Unit
                  THEN Mul(s1, 80000) ELSE s1
            s3 == IF /\ relationships.double_time # <<>>
                     /\ Abs(candidate.bpm - relationships.double_time[1].bpm) < Unit
                  THEN Mul(s2, 85000) ELSE s2
        IN  IF Abs(candidate.bpm - targetBpm) < 10 * Unit THEN Mul(s3, 110000) ELSE s3
      adjustedScore == [k \in 1..Len(considered) |-> Adjusted(considered[k])] \o <<>>
      scoredCandidates == SortDescBy(considered, adjustedScore)
  IN  scoredCandidates[1].bpm

commonTempos ==
  <<60, 70, 80, 85, 90, 95, 98, 99, 100, 105, 110, 115, 120, 125, 128, 130, 135,
    140, 150, 160, 170, 174, 180>>

\* candidate.bpm with its double, half, 1.5x and 4/3x where they are in range
Related(bpm) ==
  {bpm}
    \cup (IF bpm * 2 <= maxBpm * Unit THEN {bpm * 2} ELSE {})
    \cup (IF bpm >= 2 * minBpm * Unit THEN {bpm \div 2} ELSE {})
    \cup (IF Mul(bpm, 150000) <= maxBpm * Unit THEN {Mul(bpm, 150000)} ELSE {})
    \cup (IF (bpm * 4) \div 3 <= maxBpm * Unit THEN {(bpm * 4) \div 3} ELSE {})

\* |candidate - common| for the pair p = <<index of candidate, index of common>>
CommonDiff(uniqueCandidates, p) == Abs(uniqueCandidates[p[1]] - commonTempos[p[2]] * Unit)

\* the scan of uniqueCandidates x commonTempos for the smallest difference
\* below 3; the pair met first wins a tie: <<bestCandidate, matchedCommon>>
ScanCommon(uniqueCandidates, estimatedBpm) ==
  LET pairs == {p \in (1..Len(uniqueCandidates)) \X (1..Len(commonTempos)) :
                  CommonDiff(uniqueCandidates, p) < 3 * Unit}
      Earlier(p, q) == p[1] < q[1] \/ (p[1] = q[1] /\ p[2] <= q[2])
      best == CHOOSE p \in pairs : \A q \in pairs :
                \/ CommonDiff(uniqueCandidates, p) < CommonDiff(uniqueCandidates, q)
                \/ /\ CommonDiff(uniqueCandidates, p) = CommonDiff(uniqueCandidates, q)
                   /\ Earlier(p, q)
  IN  IF pairs = {} THEN <<estimatedBpm, FALSE>>
      ELSE <<commonTempos[best[2]] * Unit, TRUE>>

\* the score of a candidate when no common tempo matched
TypicalScore(candidate, startBpm) ==
  (IF candidate >= 90 * Unit /\ candidate <= 110 * Unit THEN 10 * Unit
   ELSE IF candidate >= 80 * Unit /\ candidate <= 120 * Unit THEN 5 * Unit
   ELSE 0) - Abs(candidate - startBpm) \div 10

\* the first candidate with the highest score
ScanTypical(uniqueCandidates, startBpm, estimatedBpm) ==
  LET idx == 1..Len(uniqueCandidates)
      best == CHOOSE k \in idx : \A j \in idx :
                \/ TypicalScore(uniqueCandidates[k], startBpm)
                     > TypicalScore(uniqueCandidates[j], startBpm)
                \/ /\ TypicalScore(uniqueCandidates[k], startBpm)
                        = TypicalScore(uniqueCandidates[j], startBpm)
                   /\ k <= j
  IN  IF idx = {} THEN estimatedBpm ELSE uniqueCandidates[best]

\* NoPeakFallback returning the default tempo, not the caller's
NoPeakFallback_m(startBpm) == 120 * Unit

\* the value returned when no peak is found
NoPeakFallback(startBpm) == startBpm

\* the last stage: the common tempo nearest to a candidate, or else the
\* candidate with the best "typical" score, clamped to [minBpm, maxBpm]
CommonTempoStage(bpmCandidates, estimatedBpm, startBpm) ==
  LET candidates == UNION {Related(bpmCandidates[k].bpm) : k \in 1..Len(bpmCandidates)}
      unique == {RoundTenth(c) : c \in candidates}
      asSeq == [k \in 1..Cardinality(unique) |->
                  CHOOSE c \in unique : Cardinality({d \in unique : d < c}) = k - 1] \o <<>>
      common == ScanCommon(asSeq, estimatedBpm)
      matchedCommon == common[2]
      bestCandidate == IF matchedCommon THEN common[1]
                       ELSE ScanTypical(asSeq, startBpm, estimatedBpm)
  IN  [tempo |-> Max2(minBpm * Unit, Min2(maxBpm * Unit, bestCandidate)),
       path |-> IF matchedCommon THEN "common" ELSE "typical"]

\* the end of tempoEstimation, from the sorted candidates on: the resolved
\* tempo, else the selected tempo when it differs from the best candidate,
\* else the common tempo stage
TempoFromCandidates(bpmCandidates, tempoRelationships, startBpm) ==
  LET estimatedBpm == bpmCandidates[1].bpm
      resolvedBpm == _resolveTempoConfusion(bpmCandidates, tempoRelationships)
      selectedBpm == _selectBestTempo(bpmCandidates, tempoRelationships, startBpm)
  IN  IF resolvedBpm # <<>> /\ resolvedBpm[1] # 0
        THEN [tempo |-> Round(resolvedBpm[1]), path |-> "resolved"]
      ELSE IF selectedBpm # estimatedBpm
        THEN [tempo |-> Round(selectedBpm), path |-> "selected"]
      ELSE CommonTempoStage(bpmCandidates, estimatedBpm, startBpm)

\* the median onset interval as a tempo
IntervalBpm(onsetPeaks, sampleRate, hopLength) ==
  LET intervals == SortAsc([k \in 1..(Min2(Len(onsetPeaks), 20) - 1) |->
                              onsetPeaks[k + 1] - onsetPeaks[k]] \o <<>>)
      medianInterval == At(intervals, Len(intervals) \div 2)
  IN  Ratio(60 * sampleRate, medianInterval * hopLength)

\* Math.exp(-0.5 * octaves * octaves)
PriorOf(octaves) == ExpNeg(Mul(octaves, octaves) \div 2)

\* the log-normal prior centred on startBpm, one octave wide
PriorWeight(bpm, startBpm) == PriorOf(Ratio(Ln(bpm) - Ln(startBpm), LN2))

\* a candidate with its score weighted by the prior
Weighted(candidate, priorWeight) ==
  [bpm |-> candidate.bpm,
   score |-> Mul(candidate.score, priorWeight),
   prominence |-> candidate.prominence,
   originalScore |-> candidate.score,
   priorWeight |-> priorWeight]

\* bpmCandidates.sort((a, b) => b.score - a.score)
SortByScore(candidates) ==
  SortDescBy(candidates, [k \in 1..Len(candidates) |-> candidates[k].score])

\* the top 5 peaks as tempo candidates, weighted by the prior and sorted by
\* the weighted score
Candidates(peaks, minLag, sampleRate, hopLength, startBpm) ==
  LET Bpm(k) == Ratio(60 * sampleRate, (minLag + peaks[k].index) * hopLength)
      Raw(k) == [bpm |-> Bpm(k), score |-> peaks[k].value,
                 prominence |-> peaks[k].prominence]
  IN  SortByScore([k \in 1..Min2(5, Len(peaks)) |->
                     Weighted(Raw(k), PriorWeight(Bpm(k), startBpm))] \o <<>>)

\* tempoEstimation once the autocorrelation peaks and the onset peaks are
\* known: the fallback without peaks, the onset-interval shortcut, or the
\* candidates
TempoFromPeaks(peaks, onsetPeaks, minLag, sampleRate, hopLength, startBpm, useEnhanced) ==
  LET intervalBpm == IntervalBpm(onsetPeaks, sampleRate, hopLength)
      bpmCandidates == Candidates(peaks, minLag, sampleRate, hopLength, startBpm)
  IN  IF Len(peaks) = 0
        THEN [tempo |-> NoPeakFallback(startBpm), path |-> "nopeak"]
      ELSE IF /\ useEnhanced
              /\ Len(onsetPeaks) >= 4
              /\ Abs(intervalBpm - 99 * Unit) < 5 * Unit
        THEN [tempo |-> Round(intervalBpm), path |-> "interval"]
      ELSE TempoFromCandidates(bpmCandidates, _detectTempoRelationships(bpmCandidates),
                               startBpm)

\* tempoEstimation(onsetEnvelope, sr, hopLength, startBpm, useEnhanced): the
\* tempo with the return statement that produced it
tempoEstimation(onsetEnvelope, sampleRate, hopLength, startBpm, useEnhanced) ==
  LET minLag == (60 * sampleRate) \div (maxBpm * hopLength)
      maxLag == CeilDiv(60 * sampleRate, minBpm * hopLength)
  IN  TempoFromPeaks(_findPeaksWithProminence(Autocorr(onsetEnvelope, minLag, maxLag), 5000),
                     _findOnsetPeaks(onsetEnvelope),
                     minLag, sampleRate, hopLength, startBpm, useEnhanced)

-----------------------------------------------------------------------------
(* Values.  A bpm option is null, a number or an array.                    *)

Null == [kind |-> "null", v |-> 0, a |-> <<>>]
Scalar(v) == [kind |-> "scalar", v |-> v, a |-> <<>>]
Array(a) == [kind |-> "array", v |-> 0, a |-> a]

\* !bpm
Falsy(bpm) == bpm.kind = "null" \/ (bpm.kind = "scalar" /\ bpm.v = 0)

\* typeof tempo === 'number' ? [tempo] : tempo
TempoArray(t) == IF t.kind = "scalar" THEN <<t.v>> ELSE t.a

defaultSampleRate == 44100

\* sr || this._detectSampleRate(y): a sample array carries no sampleRate and
\* no AudioContext exists outside a browser, which leaves defaultSampleRate
_detectSampleRate(sr) == IF sr # 0 THEN sr ELSE defaultSampleRate

frameLength == 2048

\* onsetStrength(y, sr, hopLength): frame 0 has no previous spectrum and gets
\* 0; frame i > 0 gets the spectral flux, which y.flux holds for the buffer.
\* new Float32Array(frames) throws a RangeError when frames < 0.  When the
\* method is replaced by the identity (patched) the buffer is the envelope.
onsetStrength(y, hopLength, patched) ==
  LET frames == ((y.len - frameLength) \div hopLength) + 1
  IN  IF patched THEN [throws |-> FALSE, onset |-> y.flux]
      ELSE IF frames < 0 THEN [throws |-> TRUE, onset |-> <<>>]
      ELSE [throws |-> FALSE,
            onset |-> [i \in 1..frames |-> IF i = 1 THEN 0 ELSE y.flux[i]] \o <<>>]

\* _findRhythmStart that always starts from the beginning
_findRhythmStart_m(onsetEnvelope) == 0

\* _findRhythmStart(onsetEnvelope, hopLength, sr).startFrame: the first frame
\* i in [windowSize, length - windowSize) whose 20-frame average exceeds
\* 0.1 * max and that has more than 5 of the next 10 frames above 0.05 * max
_findRhythmStart(onsetEnvelope) ==
  LET windowSize == 20
      n == Len(onsetEnvelope)
      maxOnset == MaxSeq(onsetEnvelope)
      Active(i) == 10 * SumRange(onsetEnvelope, i - windowSize + 2, i + 1)
                     > windowSize * maxOnset
      Regularity(i) == Cardinality({k \in 0..(windowSize \div 2 - 1) :
                                      20 * At(onsetEnvelope, i + k) > maxOnset})
      hits == {i \in windowSize..(n - windowSize - 1) :
                 Active(i) /\ 4 * Regularity(i) > windowSize}
  IN  IF hits = {} THEN 0
      ELSE Max2(0, (CHOOSE i \in hits : \A h \in hits : i <= h) - windowSize)

\* Math.ceil((analysisDuration * sampleRate) / hopLength) for 2 bars of 4 beats
AnalysisFrames(estimatedTempo, sampleRate, hopLength) ==
  LET beatsToAnalyze == 4 * 2
      analysisDuration == Ratio(60 * beatsToAnalyze * Unit, estimatedTempo)
  IN  CeilDiv(Mul(analysisDuration, Ratio(sampleRate, hopLength)), Unit)

-----------------------------------------------------------------------------
(* BeatTracker.beatTrack and quickBeatTrack.                               *)

\* the locals of a beat-tracking run before it starts
Idle ==
  [onset |-> <<>>, tempo |-> Null, framesPerBeat |-> <<>>, localScore |-> <<>>,
   backlink |-> <<>>, cumScore |-> <<>>, firstBeat |-> TRUE,
   pulse |-> <<>>, frame |-> 0, kept |-> {},
   start |-> 0, times |-> <<>>, dynamicTempo |-> <<>>]

NoReturn == [kind |-> "none"]
Throw(message) == [kind |-> "throw", error |-> message]

\* the options of the beatTrack call: quickBeatTrack passes y, sr, units,
\* sparse and quickDetect and leaves the rest to their defaults
Options(c) ==
  IF c.op = "quickBeatTrack"
  THEN [y |-> c.y, sr |-> c.sr, onsetEnvelope |-> [given |-> FALSE, data |-> <<>>],
        hopLength |-> 512, startBpm |-> 120 * Unit, tightness |-> 100,
        trim |-> TRUE, bpm |-> Null, units |-> "time", sparse |-> TRUE,
        quickDetect |-> TRUE, patched |-> c.patched]
  ELSE c

\* NoOnsetResult with the dense form forgotten
NoOnsetResult_m(onsetEnvelope, sparse) ==
  [kind |-> "return", tempo |-> Scalar(0), beats |-> <<>>]

\* the result for an envelope without onsets: tempo 0.0 and no beats, as []
\* or as new Float32Array(onset.length).fill(0)
NoOnsetResult(onsetEnvelope, sparse) ==
  [kind |-> "return", tempo |-> Scalar(0),
   beats |-> IF sparse THEN <<>> ELSE [k \in 1..Len(onsetEnvelope) |-> 0] \o <<>>]

\* _beatTracker up to the initialisation of _beatTrackDP: the error for a
\* bad bpm or tightness, or the locals of the tracker
TrackerStart(onsetEnvelope, bpm, error, framesPerBeat, localScore) ==
  IF error # ""
  THEN [outcome |-> "throw", ret |-> Throw(error), run |-> Idle]
  ELSE [outcome |-> "track", ret |-> NoReturn,
        run |-> [Idle EXCEPT !.onset = onsetEnvelope, !.tempo = bpm,
                             !.framesPerBeat = framesPerBeat,
                             !.localScore = localScore,
                             !.backlink = <<-1>>, !.cumScore = <<localScore[1]>>]]

\* _beatTracker(onsetEnvelope, bpm, frameRate, tightness, trim) up to the
\* forward pass
BeatTrackerStart(onsetEnvelope, bpm, tempoArray, framesPerBeat, tightness) ==
  TrackerStart(onsetEnvelope, bpm, _beatTrackerError(tempoArray, tightness), framesPerBeat,
               _beatLocalScore(_normalizeOnsets(onsetEnvelope), framesPerBeat))

\* the tempo given as bpm, or else estimated from the envelope, and the
\* call of _beatTracker with it
BeatTrackTempo(o, sampleRate, onsetEnvelope, bpm) ==
  BeatTrackerStart(onsetEnvelope, bpm, TempoArray(bpm),
                   FramesPerBeat(TempoArray(bpm), Ratio(sampleRate, o.hopLength)),
                   o.tightness)

\* the bpm option, or the tempo estimated from the envelope when it is null
TempoOrEstimate(o, sampleRate, onsetEnvelope) ==
  IF o.bpm.kind = "null"
  THEN Scalar(tempoEstimation(onsetEnvelope, sampleRate, o.hopLength, o.startBpm, TRUE).tempo)
  ELSE o.bpm

\* quick detection: the envelope from the start of the rhythm for 2 bars at
\* the tempo estimated from the first 256 frames
QuickWindow(given, startFrame, sampleRate, hopLength, startBpm) ==
  LET previewFrames == Min2(Len(given), startFrame + 256)
      previewOnset == Slice(given, startFrame, previewFrames)
      estimatedTempo ==
        tempoEstimation(previewOnset, sampleRate, hopLength, startBpm, TRUE).tempo
      endFrame == Min2(Len(given),
                       startFrame + AnalysisFrames(estimatedTempo, sampleRate, hopLength))
  IN  Slice(given, startFrame, endFrame)

\* beatTrack from the onset envelope on: the early return for an envelope
\* without onsets, the quick detection window, the tempo and the tracker
BeatTrackOnset(o, sampleRate, given, onsetEnvelope) ==
  IF ~_hasAnyValue(given)
  THEN [outcome |-> "return", ret |-> NoOnsetResult(given, o.sparse), run |-> Idle]
  ELSE BeatTrackTempo(o, sampleRate, onsetEnvelope,
                      TempoOrEstimate(o, sampleRate, onsetEnvelope))

\* the envelope the tracker works on
Analysed(o, sampleRate, given) ==
  IF o.quickDetect /\ Falsy(o.bpm)
  THEN QuickWindow(given, _findRhythmStart(given), sampleRate, o.hopLength, o.startBpm)
  ELSE given

\* beatTrack with the envelope given or computed
BeatTrackGiven(o, sampleRate, given) ==
  BeatTrackOnset(o, sampleRate, given, Analysed(o, sampleRate, given))

\* beatTrack up to the forward pass: the outcome is a throw, the early
\* return for an envelope without onsets, or the locals of the tracker
BeatTrackSetup(o) ==
  LET strength == onsetStrength(o.y, o.hopLength, o.patched)
  IN  IF ~o.onsetEnvelope.given /\ o.y.kind = "null"
        THEN [outcome |-> "throw",
              ret |-> Throw("Either y or onsetEnvelope must be provided"), run |-> Idle]
      ELSE IF ~o.onsetEnvelope.given /\ strength.throws
        THEN [outcome |-> "throw", ret |-> Throw("Invalid typed array length"),
              run |-> Idle]
      ELSE BeatTrackGiven(o, _detectSampleRate(o.sr),
                          IF o.onsetEnvelope.given THEN o.onsetEnvelope.data
                          ELSE strength.onset)

\* the beats in the units asked for: the boolean array, or the frames,
\* samples or seconds of the beats
BeatUnits(o, sampleRate, beatsBoolean, frames) ==
  IF ~o.sparse THEN beatsBoolean
  ELSE IF o.units = "samples"
    THEN [k \in 1..Len(frames) |-> frames[k] * o.hopLength] \o <<>>
  ELSE IF o.units = "time"
    THEN [k \in 1..Len(frames) |-> Ratio(frames[k] * o.hopLength, sampleRate)] \o <<>>
  ELSE frames

\* _trimBeats when trim is set
Trimmed(trim, localScore, marked) ==
  IF trim THEN _trimBeats(localScore, marked) ELSE marked

\* the beats as frames
BeatFrames(o, sampleRate, beatsBoolean) ==
  BeatUnits(o, sampleRate, beatsBoolean, IndicesWhere(beatsBoolean))

\* the beats of a finished forward pass: _lastBeat, _dpBacktrack, _trimBeats
\* and the conversion of the boolean array to the units asked for
BeatTrackResult(o, r) ==
  LET N == Len(r.localScore)
      tail == _lastBeat(r.cumScore)
      marked == _dpBacktrack(r.backlink, tail, [k \in 1..N |-> FALSE] \o <<>>)
  IN  [kind |-> "return", tempo |-> r.tempo,
       beats |-> BeatFrames(o, _detectSampleRate(o.sr), Trimmed(o.trim, r.localScore, marked))]

\* what the caller receives: beatTrack's own outcome, or quickBeatTrack's
\* {bpm, beats, confidence} with its catch clause
Deliver(c, result) ==
  IF c.op = "quickBeatTrack"
  THEN IF result.kind = "throw"
       THEN [kind |-> "return", bpm |-> 120 * Unit, beats |-> <<>>, confidence |-> 0]
       ELSE [kind |-> "return", bpm |-> result.tempo.v, beats |-> result.beats,
             confidence |-> IF Len(result.beats) > 0 THEN 80000 ELSE 20000]
  ELSE result

BeatTrackBegin ==
  /\ pc = "call"
  /\ call.op \in {"beatTrack", "quickBeatTrack"}
  /\ \E s \in {BeatTrackSetup(Options(call))} :
       IF s.outcome = "track"
       THEN pc' = "forward" /\ run' = s.run /\ ret' = ret
       ELSE pc' = "done" /\ run' = run /\ ret' = Deliver(call, s.ret)
  /\ UNCHANGED call
  /\ UNCHANGED <<page, worker>>

\* one iteration of the forward pass of _beatTrackDP
DPForward ==
  /\ pc = "forward"
  /\ Len(run.cumScore) < Len(run.localScore)
  /\ \E step \in {DPStep([backlink |-> run.backlink, cumScore |-> run.cumScore,
                            firstBeat |-> run.firstBeat],
                           run.localScore, run.framesPerBeat, Options(call).tightness,
                           MaxSeq(run.localScore) \div 100, Len(run.cumScore))} :
       run' = [run EXCEPT !.backlink = step.backlink, !.cumScore = step.cumScore,
                            !.firstBeat = step.firstBeat]
  /\ UNCHANGED <<call, pc, ret>>
  /\ UNCHANGED <<page, worker>>

\* the forward pass is over: the beats are read back and returned
BeatTrackEnd ==
  /\ pc = "forward"
  /\ Len(run.cumScore) = Len(run.localScore)
  /\ ret' = Deliver(call, BeatTrackResult(Options(call), run))
  /\ pc' = "done"
  /\ UNCHANGED <<call, run>>
  /\ UNCHANGED <<page, worker>>

-----------------------------------------------------------------------------
(* tempoEstimation as a call, BeatTrackerCore.tempoEstimation and the demo *)
(* page's computeFourierTempogram.                                         *)

\* tempoEstimation has five parameters; a caller that passes a range
\* (onset, sr, hop, startBpm, minBpm, maxBpm) binds minBpm to useEnhanced
TempoEstimationCall ==
  /\ pc = "call"
  /\ call.op = "tempoEstimation"
  /\ LET useEnhanced == IF call.range.given THEN call.range.minBpm # 0
                        ELSE call.useEnhanced
     IN  \E t \in {tempoEstimation(call.onsetEnvelope, _detectSampleRate(call.sr),
                                    call.hopLength, call.startBpm, useEnhanced)} :
           ret' = [kind |-> "return", tempo |-> t.tempo, path |-> t.path]
  /\ pc' = "done"
  /\ UNCHANGED <<call, run>>
  /\ UNCHANGED <<page, worker>>

coreCommonTempos == <<120, 128, 140, 174, 100, 85>>

\* BeatTrackerCore.tempoEstimation: the best peak's tempo, moved to the
\* first common tempo within 5 BPM, clamped to [minBpm, maxBpm]
Core_tempoEstimation(onsetEnvelope, sampleRate, hopLength, startBpm) ==
  LET minLag == (60 * sampleRate) \div (maxBpm * hopLength)
      maxLag == CeilDiv(60 * sampleRate, minBpm * hopLength)
      autocorr == Autocorr(onsetEnvelope, minLag, maxLag)
      peaks == _findPeaksWithProminence(autocorr, 10000)
      estimatedBpm == Ratio(60 * sampleRate, (minLag + peaks[1].index) * hopLength)
      near == {k \in 1..Len(coreCommonTempos) :
                 Abs(estimatedBpm - coreCommonTempos[k] * Unit) < 5 * Unit}
      adjustedBpm == IF near = {} THEN estimatedBpm
                     ELSE coreCommonTempos[CHOOSE k \in near : \A h \in near : k <= h] * Unit
  IN  IF Len(peaks) = 0
        THEN [tempo |-> NoPeakFallback(startBpm), path |-> "nopeak"]
      ELSE [tempo |-> Max2(minBpm * Unit, Min2(maxBpm * Unit, adjustedBpm)),
            path |-> "adjusted"]

CoreTempoEstimationCall ==
  /\ pc = "call"
  /\ call.op = "Core.tempoEstimation"
  /\ \E t \in {Core_tempoEstimation(call.onsetEnvelope, _detectSampleRate(call.sr),
                                      call.hopLength, call.startBpm)} :
       ret' = [kind |-> "return", tempo |-> t.tempo, path |-> t.path]
  /\ pc' = "done"
  /\ UNCHANGED <<call, run>>
  /\ UNCHANGED <<page, worker>>

winLength == 384

\* computeTempoFrequencies(sr, hopLength, winLength)[j], in BPM
TempoFrequency(sr, j) == Ratio(j * sr * 60, winLength * 512)

\* the magnitudes of computeSimpleFFT(frame), one per bin k = 0..N-1.  A
\* frame of zeros transforms to zeros; no other frame is explored, since the
\* envelopes of winLength frames or more given to the tempogram are silent
FrameMagnitudes(frame) == [k \in 1..Len(frame) |-> 0] \o <<>>

\* analyzeTempogram(tempogram, tempoFreqs) over the magnitudes of the
\* frames; reading tempogram[0].length of an empty tempogram is a TypeError
analyzeTempogram(magnitudes, sr) ==
  IF Len(magnitudes) = 0 THEN [throws |-> TRUE, peakTempos |-> <<>>, totalEnergy |-> 0]
  ELSE
    LET numFrames == Len(magnitudes)
        numFreqs == Len(magnitudes[1])
        totalEnergy == SumSeq([i \in 1..numFrames |-> SumSeq(magnitudes[i])] \o <<>>)
        avgEnergyPerTempo ==
          [k \in 1..numFreqs |->
             SumSeq([i \in 1..numFrames |-> magnitudes[i][k]] \o <<>>) \div numFrames] \o <<>>
        maxEnergy == MaxSeq(avgEnergyPerTempo)
        isPeak == [k \in 1..numFreqs |->
                     LET j == k - 1
                         energy == At(avgEnergyPerTempo, j)
                     IN  /\ j >= 1 /\ j < numFreqs - 1
                         \* tempoFreqs has winLength / 2 + 1 entries
                         /\ j <= winLength \div 2
                         /\ TempoFrequency(sr, j) >= 60 * Unit
                         /\ TempoFrequency(sr, j) <= 200 * Unit
                         /\ energy > At(avgEnergyPerTempo, j - 1)
                         /\ energy > At(avgEnergyPerTempo, j + 1)
                         /\ 100 * energy > maxEnergy] \o <<>>
        bins == IndicesWhere(isPeak)
        tempoPeaks == [k \in 1..Len(bins) |->
                         [bpm |-> TempoFrequency(sr, bins[k]), bin |-> bins[k],
                          energy |-> At(avgEnergyPerTempo, bins[k])]] \o <<>>
    IN  [throws |-> FALSE,
         peakTempos |-> SortDescBy(tempoPeaks,
                                   [k \in 1..Len(tempoPeaks) |-> tempoPeaks[k].energy]),
         totalEnergy |-> totalEnergy]

\* computeFourierTempogram(onsetEnvelope, sr)
computeFourierTempogram(onsetEnvelope, sr) ==
  LET hopFrames == winLength \div 4
      frames == ((Len(onsetEnvelope) - winLength) \div hopFrames) + 1
      \* frame[j] = onsetEnvelope[start + j] * window[j]; the Hann window
      \* scales a sample and leaves a zero sample zero
      Frame(i) == [j \in 1..winLength |->
                     IF i * hopFrames + j <= Len(onsetEnvelope)
                     THEN onsetEnvelope[i * hopFrames + j] ELSE 0]
      tempogram == [i \in 1..Max2(frames, 0) |-> FrameMagnitudes(Frame(i - 1))] \o <<>>
      tempogramAnalysis == analyzeTempogram(tempogram, sr)
  IN  IF tempogramAnalysis.throws
      THEN Throw("TypeError: tempogram[0] is undefined")
      ELSE [kind |-> "return", frames |-> frames,
            peakTempos |-> tempogramAnalysis.peakTempos,
            totalEnergy |-> tempogramAnalysis.totalEnergy]

ComputeFourierTempogramCall ==
  /\ pc = "call"
  /\ call.op = "computeFourierTempogram"
  /\ ret' = computeFourierTempogram(call.onsetEnvelope, call.sr)
  /\ pc' = "done"
  /\ UNCHANGED <<call, run>>
  /\ UNCHANGED <<page, worker>>

-----------------------------------------------------------------------------
(* BeatTracker.plp: the Fourier tempogram of the onset envelope, cut to    *)
(* the tempo range and to its peak bins, inverted and normalised.          *)

\* Math.cos(2 * Math.PI * m / winLength) for m = 0..winLength-1
CosTable ==
  <<100000, 99987, 99946, 99880, 99786, 99666, 99518, 99345, 99144, 98918,
    98664, 98385, 98079, 97746, 97388, 97003, 96593, 96156, 95694, 95206,
    94693, 94154, 93591, 93002, 92388, 91749, 91086, 90399, 89687, 88952,
    88192, 87409, 86603, 85773, 84920, 84045, 83147, 82227, 81285, 80321,
    79335, 78329, 77301, 76253, 75184, 74095, 72986, 71858, 70711, 69544,
    68359, 67156, 65935, 64696, 63439, 62166, 60876, 59570, 58248, 56910,
    55557, 54189, 52807, 51410, 50000, 48576, 47140, 45690, 44229, 42756,
    41271, 39775, 38268, 36752, 35225, 33689, 32144, 30590, 29028, 27459,
    25882, 24298, 22708, 21111, 19509, 17902, 16290, 14673, 13053, 11429,
    9802, 8172, 6540, 4907, 3272, 1636, 0, -1636, -3272, -4907, -6540, -8172,
    -9802, -11429, -13053, -14673, -16290, -17902, -19509, -21111, -22708,
    -24298, -25882, -27459, -29028, -30590, -32144, -33689, -35225, -36752,
    -38268, -39775, -41271, -42756, -44229, -45690, -47140, -48576, -50000,
    -51410, -52807, -54189, -55557, -56910, -58248, -59570, -60876, -62166,
    -63439, -64696, -65935, -67156, -68359, -69544, -70711, -71858, -72986,
    -74095, -75184, -76253, -77301, -78329, -79335, -80321, -81285, -82227,
    -83147, -84045, -84920, -85773, -86603, -87409, -88192, -88952, -89687,
    -90399, -91086, -91749, -92388, -93002, -93591, -94154, -94693, -95206,
    -95694, -96156, -96593, -97003, -97388, -97746, -98079, -98385, -98664,
    -98918, -99144, -99345, -99518, -99666, -99786, -99880, -99946, -99987,
    -100000, -99987, -99946, -99880, -99786, -99666, -99518, -99345, -99144,
    -98918, -98664, -98385, -98079, -97746, -97388, -97003, -96593, -96156,
    -95694, -95206, -94693, -94154, -93591, -93002, -92388, -91749, -91086,
    -90399, -89687, -88952, -88192, -87409, -86603, -85773, -84920, -84045,
    -83147, -82227, -81285, -80321, -79335, -78329, -77301, -76253, -75184,
    -74095, -72986, -71858, -70711, -69544, -68359, -67156, -65935, -64696,
    -63439, -62166, -60876, -59570, -58248, -56910, -55557, -54189, -52807,
    -51410, -50000, -48576, -47140, -45690, -44229, -42756, -41271, -39775,
    -38268, -36752, -35225, -33689, -32144, -30590, -29028, -27459, -25882,
    -24298, -22708, -21111, -19509, -17902, -16290, -14673, -13053, -11429,
    -9802, -8172, -6540, -4907, -3272, -1636, 0, 1636, 3272, 4907, 6540,
    8172, 9802, 11429, 13053, 14673, 16290, 17902, 19509, 21111, 22708,
    24298, 25882, 27459, 29028, 30590, 32144, 33689, 35225, 36752, 38268,
    39775, 41271, 42756, 44229, 45690, 47140, 48576, 50000, 51410, 52807,
    54189, 55557, 56910, 58248, 59570, 60876, 62166, 63439, 64696, 65935,
    67156, 68359, 69544, 70711, 71858, 72986, 74095, 75184, 76253, 77301,
    78329, 79335, 80321, 81285, 82227, 83147, 84045, 84920, 85773, 86603,
    87409, 88192, 88952, 89687, 90399, 91086, 91749, 92388, 93002, 93591,
    94154, 94693, 95206, 95694, 96156, 96593, 97003, 97388, 97746, 98079,
    98385, 98664, 98918, 99144, 99345, 99518, 99666, 99786, 99880, 99946,
    99987>>

\* the Hann window 0.5 - 0.5 * Math.cos(2 * Math.PI * i / (winLength - 1))
HannTable ==
  <<0, 7, 27, 61, 108, 168, 242, 329, 430, 544, 671, 812, 966, 1133, 1313,
    1506, 1713, 1932, 2164, 2409, 2667, 2938, 3221, 3517, 3826, 4147, 4480,
    4825, 5183, 5553, 5934, 6328, 6733, 7150, 7578, 8018, 8469, 8932, 9405,
    9889, 10384, 10890, 11406, 11933, 12470, 13017, 13574, 14141, 14717,
    15303, 15898, 16503, 17116, 17739, 18370, 19009, 19657, 20313, 20977,
    21649, 22328, 23015, 23709, 24410, 25118, 25833, 26555, 27282, 28016,
    28756, 29501, 30252, 31008, 31769, 32536, 33306, 34082, 34862, 35645,
    36433, 37224, 38019, 38817, 39618, 40422, 41228, 42037, 42847, 43660,
    44475, 45291, 46108, 46926, 47745, 48565, 49385, 50205, 51025, 51845,
    52665, 53483, 54301, 55118, 55933, 56746, 57558, 58368, 59176, 59981,
    60783, 61583, 62379, 63172, 63961, 64747, 65529, 66306, 67080, 67848,
    68612, 69371, 70124, 70872, 71615, 72352, 73082, 73807, 74525, 75236,
    75941, 76639, 77329, 78013, 78688, 79356, 80016, 80668, 81312, 81947,
    82574, 83192, 83801, 84400, 84991, 85572, 86144, 86706, 87258, 87800,
    88331, 88853, 89364, 89864, 90354, 90833, 91301, 91758, 92203, 92637,
    93060, 93471, 93871, 94258, 94634, 94997, 95349, 95688, 96015, 96330,
    96632, 96922, 97199, 97463, 97715, 97954, 98179, 98392, 98592, 98779,
    98952, 99113, 99260, 99394, 99515, 99622, 99716, 99797, 99864, 99918,
    99958, 99985, 99998, 99998, 99985, 99958, 99918, 99864, 99797, 99716,
    99622, 99515, 99394, 99260, 99113, 98952, 98779, 98592, 98392, 98179,
    97954, 97715, 97463, 97199, 96922, 96632, 96330, 96015, 95688, 95349,
    94997, 94634, 94258, 93871, 93471, 93060, 92637, 92203, 91758, 91301,
    90833, 90354, 89864, 89364, 88853, 88331, 87800, 87258, 86706, 86144,
    85572, 84991, 84400, 83801, 83192, 82574, 81947, 81312, 80668, 80016,
    79356, 78688, 78013, 77329, 76639, 75941, 75236, 74525, 73807, 73082,
    72352, 71615, 70872, 70124, 69371, 68612, 67848, 67080, 66306, 65529,
    64747, 63961, 63172, 62379, 61583, 60783, 59981, 59176, 58368, 57558,
    56746, 55933, 55118, 54301, 53483, 52665, 51845, 51025, 50205, 49385,
    48565, 47745, 46926, 46108, 45291, 44475, 43660, 42847, 42037, 41228,
    40422, 39618, 38817, 38019, 37224, 36433, 35645, 34862, 34082, 33306,
    32536, 31769, 31008, 30252, 29501, 28756, 28016, 27282, 26555, 25833,
    25118, 24410, 23709, 23015, 22328, 21649, 20977, 20313, 19657, 19009,
    18370, 17739, 17116, 16503, 15898, 15303, 14717, 14141, 13574, 13017,
    12470, 11933, 11406, 10890, 10384, 9889, 9405, 8932, 8469, 8018, 7578,
    7150, 6733, 6328, 5934, 5553, 5183, 4825, 4480, 4147, 3826, 3517, 3221,
    2938, 2667, 2409, 2164, 1932, 1713, 1506, 1313, 1133, 966, 812, 671, 544,
    430, 329, 242, 168, 108, 61, 27, 7, 0>>

Cos(m) == CosTable[(m % winLength) + 1]
Sin(m) == Cos(m - winLength \div 4)

\* the positions of the non-zero samples of a frame: the terms of a sum over
\* the frame that the zero samples leave unchanged
NonZero(frame) == IndicesWhere([n \in 1..Len(frame) |-> frame[n] # 0] \o <<>>)

\* _fft(signal)[k] for the angle -2 * PI * k * n / N
FftBin(frame, nonzero, k) ==
  [real |-> SumSeq([m \in 1..Len(nonzero) |->
                      Mul(At(frame, nonzero[m]), Cos(k * nonzero[m]))] \o <<>>),
   imag |-> -SumSeq([m \in 1..Len(nonzero) |->
                       Mul(At(frame, nonzero[m]), Sin(k * nonzero[m]))] \o <<>>)]

\* _fft(signal): one bin per sample
_fft(frame, nonzero) == [k \in 1..Len(frame) |-> FftBin(frame, nonzero, k - 1)] \o <<>>

\* Math.sqrt(bin.real * bin.real + bin.imag * bin.imag)
Magnitude(bin) == Sqrt(Mul(bin.real, bin.real) + Mul(bin.imag, bin.imag))

\* fourierTempogram: the number of frames, none when the envelope is shorter
\* than the window
TempogramFrames(onset) ==
  LET hopFrames == winLength \div 4
      frames == ((Len(onset) - winLength) \div hopFrames) + 1
  IN  IF Len(onset) < winLength \/ frames <= 0 THEN 0 ELSE frames

\* fourierTempogram: frame i (from 0) of the envelope under the Hann window
WindowedFrame(onset, i) ==
  LET start == i * (winLength \div 4)
  IN  [j \in 1..winLength |->
         IF start + j <= Len(onset) THEN onset[start + j] * HannTable[j] ELSE 0] \o <<>>

\* _fourierTempoFrequencies(sr, hopLength, winLength)[j], in BPM
_fourierTempoFrequencies(sr, hopLength, j) == Ratio(j * sr * 60, winLength * hopLength)

\* the bins plp sets to zero: tempoFrequencies has winLength / 2 + 1 entries,
\* and a comparison with the undefined entry of a higher bin is false
OutOfRange(j, sr, hopLength, tempoMin, tempoMax) ==
  /\ j <= winLength \div 2
  /\ \/ tempoMin.kind # "null" /\ _fourierTempoFrequencies(sr, hopLength, j) < tempoMin.v
     \/ tempoMax.kind # "null" /\ _fourierTempoFrequencies(sr, hopLength, j) > tempoMax.v

ZeroBin == [real |-> 0, imag |-> 0]

\* frame i of the tempogram with the tempo constraints applied
ConstrainedFrame(frame, nonzero, sr, hopLength, tempoMin, tempoMax) ==
  [k \in 1..Len(frame) |->
     IF OutOfRange(k - 1, sr, hopLength, tempoMin, tempoMax) THEN ZeroBin
     ELSE FftBin(frame, nonzero, k - 1)] \o <<>>

\* the magnitudes of the bins; ftmag = Math.log1p(1e6 * magnitude) grows with
\* the magnitude, so the bins at the peak of ftmag are those at the peak of
\* the magnitude
Magnitudes(bins) == [k \in 1..Len(bins) |-> Magnitude(bins[k])] \o <<>>

\* magnitudes closer than this cannot be told apart at the resolution of Unit
PeakTolerance == 200

\* "keep only values at peak": the sets of bins (from 0) that can be the bins
\* with ftmag equal to the peak value.  A frame of zeros keeps every bin;
\* otherwise the bins kept are some of those within PeakTolerance of the peak
KeptChoices(magnitudes) ==
  LET peakValue == MaxSeq(magnitudes)
      near == {k \in 1..Len(magnitudes) :
                 magnitudes[k] > 0 /\ magnitudes[k] >= peakValue - PeakTolerance}
  IN  IF peakValue = 0 THEN {{}}
      ELSE {{k - 1 : k \in kept} : kept \in (SUBSET near) \ {{}}}

\* Math.sqrt(1e-10 + maxMag)
NormFactor(maxMag) == IF maxMag = 0 THEN 1 ELSE Sqrt(maxMag)

\* the members of a set of numbers in ascending order
Ascending(S) ==
  [r \in 1..Cardinality(S) |->
     CHOOSE k \in S : Cardinality({j \in S : j < k}) = r - 1] \o <<>>

\* IfftAt with the cosine and the sine exchanged
IfftAt_m(bins, kept, normFactor, n) ==
  SumSeq([m \in 1..Len(kept) |->
            Mul(Ratio(bins[kept[m] + 1].real, normFactor), Sin(kept[m] * n))
              - Mul(Ratio(bins[kept[m] + 1].imag, normFactor), Cos(kept[m] * n))] \o <<>>)
    \div Len(bins)

\* _ifft(spectrum)[n] for a spectrum whose non-zero bins are the bins kept,
\* each divided by normFactor
IfftAt(bins, kept, normFactor, n) ==
  SumSeq([m \in 1..Len(kept) |->
            Mul(Ratio(bins[kept[m] + 1].real, normFactor), Cos(kept[m] * n))
              - Mul(Ratio(bins[kept[m] + 1].imag, normFactor), Sin(kept[m] * n))] \o <<>>)
    \div Len(bins)

\* frame[j] * window[j % nFft] of _istft for the inverted frame
PulseFrame(bins, kept, normFactor) ==
  [j \in 1..Len(bins) |->
     Mul(IfftAt(bins, kept, normFactor, j - 1), HannTable[((j - 1) % winLength) + 1])] \o <<>>

\* _istft with the result sized by nFft
IstftResult_m(length) == [k \in 1..winLength |-> 0] \o <<>>

\* _istft: new Float32Array(length)
IstftResult(length) == [k \in 1..length |-> 0] \o <<>>

\* _istft: result[start + j] += frame[j] * window[j] while start + j < length
OverlapAdd(result, start, frame) ==
  [t \in 1..Len(result) |->
     result[t] + (IF t - start \in 1..Len(frame) THEN frame[t - start] ELSE 0)] \o <<>>

\* one frame of plp after the other: the tempogram frame cut to the tempo
\* range and to the bins kept, inverted and added to the pulse at hop 1
PlpStep(pulse, i, bins, magnitudes, kept) ==
  OverlapAdd(pulse, i, PulseFrame(bins, Ascending(kept), NormFactor(MaxSeq(magnitudes))))

MinSeq(x) == -MaxSeq([k \in 1..Len(x) |-> -x[k]] \o <<>>)

\* _normalize without the subtraction of the minimum
_normalize_m(x) ==
  IF Len(x) = 0 \/ MaxSeq(x) - MinSeq(x) = 0 THEN x
  ELSE [k \in 1..Len(x) |-> Ratio(x[k], MaxSeq(x) - MinSeq(x))] \o <<>>

\* _normalize(x): Math.max() of no values is -Infinity and Math.min() is
\* Infinity, so the range of an empty array is not 0 and its map is empty
_normalize(x) ==
  LET max == MaxSeq(x)
      min == MinSeq(x)
      range == max - min
  IN  IF Len(x) = 0 THEN x
      ELSE IF range = 0 THEN x
      ELSE [k \in 1..Len(x) |-> Ratio(x[k] - min, range)] \o <<>>

\* pulse[i] = Math.max(0, pulse[i])
Positive(pulse) == [k \in 1..Len(pulse) |-> Max2(0, pulse[k])] \o <<>>

\* the error of plp for an empty tempo range, naming both values
TempoRangeError(tempoMin, tempoMax) ==
  [kind |-> "throw", error |-> "tempoMax must be larger than tempoMin",
   tempoMax |-> tempoMax.v, tempoMin |-> tempoMin.v]

\* EmptyRange rejecting only tempoMax < tempoMin
EmptyRange_m(tempoMin, tempoMax) ==
  tempoMin.kind # "null" /\ tempoMax.kind # "null" /\ tempoMax.v < tempoMin.v

\* tempoMin !== null && tempoMax !== null && tempoMax <= tempoMin
EmptyRange(tempoMin, tempoMax) ==
  tempoMin.kind # "null" /\ tempoMax.kind # "null" /\ tempoMax.v <= tempoMin.v

\* plp up to the tempogram: the envelope given or computed, and the check of
\* the tempo range
PlpSetup(c, strength) ==
  IF ~c.onsetEnvelope.given /\ c.y.kind = "null"
    THEN [outcome |-> "throw",
          ret |-> Throw("Either y or onsetEnvelope must be provided"), onset |-> <<>>]
  ELSE IF ~c.onsetEnvelope.given /\ strength.throws
    THEN [outcome |-> "throw", ret |-> Throw("Invalid typed array length"), onset |-> <<>>]
  ELSE IF EmptyRange(c.tempoMin, c.tempoMax)
    THEN [outcome |-> "throw", ret |-> TempoRangeError(c.tempoMin, c.tempoMax),
          onset |-> <<>>]
  ELSE [outcome |-> "tempogram", ret |-> NoReturn,
        onset |-> IF c.onsetEnvelope.given THEN c.onsetEnvelope.data ELSE strength.onset]

PlpBegin ==
  /\ pc = "call"
  /\ call.op = "plp"
  /\ \E s \in {PlpSetup(call, onsetStrength(call.y, call.hopLength, FALSE))} :
       IF s.outcome = "tempogram"
       THEN /\ pc' = "plp"
            /\ run' = [Idle EXCEPT !.onset = s.onset,
                                   !.pulse = IstftResult(Len(s.onset))]
            /\ ret' = ret
       ELSE pc' = "done" /\ run' = run /\ ret' = s.ret
  /\ UNCHANGED call
  /\ UNCHANGED <<page, worker>>

\* one frame of the tempogram through the tempo constraints, the peak
\* selection, the normalisation and the overlap-add of _istft
PlpFrame ==
  /\ pc = "plp"
  /\ run.frame < TempogramFrames(run.onset)
  /\ \E frame \in {WindowedFrame(run.onset, run.frame)} :
       \E bins \in {ConstrainedFrame(frame, NonZero(frame), _detectSampleRate(call.sr),
                                     call.hopLength, call.tempoMin, call.tempoMax)} :
         \E magnitudes \in {Magnitudes(bins)} :
           \E kept \in KeptChoices(magnitudes) :
             run' = [run EXCEPT !.pulse = PlpStep(run.pulse, run.frame, bins,
                                                  magnitudes, kept),
                                !.frame = run.frame + 1, !.kept = kept]
  /\ UNCHANGED <<call, pc, ret>>
  /\ UNCHANGED <<page, worker>>

\* the pulse without its negative values, normalised
PlpEnd ==
  /\ pc = "plp"
  /\ run.frame = TempogramFrames(run.onset)
  /\ ret' = [kind |-> "return", pulse |-> _normalize(Positive(run.pulse))]
  /\ pc' = "done"
  /\ UNCHANGED <<call, run>>
  /\ UNCHANGED <<page, worker>>

\* _lastBeat(cumScore) called on an array of scores
LastBeatCall ==
  /\ pc = "call"
  /\ call.op = "_lastBeat"
  /\ ret' = [kind |-> "return", tail |-> _lastBeat(call.cumScore)]
  /\ pc' = "done"
  /\ UNCHANGED <<call, run>>
  /\ UNCHANGED <<page, worker>>

\* _trimBeats(localScore, beats) called on its own: the array returned and
\* the argument beats after the call, which is only read (trimmed = [...beats])
TrimBeatsCall ==
  /\ pc = "call"
  /\ call.op = "_trimBeats"
  /\ ret' = [kind |-> "return", trimmed |-> _trimBeats(call.localScore, call.beats),
             beats |-> call.beats]
  /\ pc' = "done"
  /\ UNCHANGED <<call, run>>
  /\ UNCHANGED <<page, worker>>

\* _findRhythmStart(onsetEnvelope, hopLength, sr) called on its own
FindRhythmStartCall ==
  /\ pc = "call"
  /\ call.op = "_findRhythmStart"
  /\ \E startFrame \in {_findRhythmStart(call.onsetEnvelope)} :
       ret' = [kind |-> "return", startFrame |-> startFrame,
               startTime |-> Ratio(startFrame * call.hopLength, call.sr)]
  /\ pc' = "done"
  /\ UNCHANGED <<call, run>>
  /\ UNCHANGED <<page, worker>>

\* BeatTracker.prototype._normalize called on an array, as the tests do
NormalizeCall ==
  /\ pc = "call"
  /\ call.op = "_normalize"
  /\ ret' = [kind |-> "return", x |-> _normalize(call.x)]
  /\ pc' = "done"
  /\ UNCHANGED <<call, run>>
  /\ UNCHANGED <<page, worker>>

-----------------------------------------------------------------------------
(* The browser-ready BeatTracker, which delegates to BeatTrackerCore.      *)

\* the methods of class BeatTrackerCore
CoreMethods ==
  {"beatTrack", "_findRhythmStart", "tempoEstimation", "onsetStrength", "_beatTracker",
   "_computeMagnitudeSpectrum", "_findPeaksWithProminence", "_normalizeOnsets",
   "_beatLocalScore", "_beatTrackDP", "_lastBeat", "_dpBacktrack", "_trimBeats",
   "_localMax", "_fft", "_hasAnyValue"}

\* the methods of the wrapper that return this.core.<method>(...args)
WrapperMethods ==
  {"beatTrack", "tempoEstimation", "onsetStrength", "estimateDynamicTempo", "plp",
   "_findRhythmStart", "_computeMagnitudeSpectrum", "_fft", "_hasAnyValue", "_beatTracker",
   "_normalizeOnsets", "_beatLocalScore", "_beatTrackDP", "_lastBeat", "_dpBacktrack",
   "_trimBeats", "_findPeaksWithProminence", "_localMax", "fourierTempogram",
   "_fourierTempoFrequencies", "_istft", "_ifft", "_normalize"}

\* the public methods the guide documents or uses
GuideMethods ==
  {"beatTrack", "tempoEstimation", "onsetStrength", "estimateDynamicTempo", "plp",
   "fourierTempogram"}

\* TypeError: this.core.<method> is not a function
NotAFunction(method) ==
  [kind |-> "throw", error |-> "this.core[method] is not a function", method |-> method]

\* this.core.<method>(...args) for the methods of the core modelled here
CoreResult(c) ==
  IF c.method = "tempoEstimation"
  THEN [kind |-> "return", method |-> c.method,
        value |-> <<Core_tempoEstimation(c.onsetEnvelope, _detectSampleRate(c.sr),
                                         c.hopLength, 120 * Unit).tempo>>]
  ELSE IF onsetStrength(c.y, c.hopLength, FALSE).throws
    THEN Throw("Invalid typed array length")
  ELSE [kind |-> "return", method |-> c.method,
        value |-> onsetStrength(c.y, c.hopLength, FALSE).onset]

\* a method of the wrapper: return this.core.<method>(...args)
WrapperCall ==
  /\ pc = "call"
  /\ call.op = "BeatTracker"
  /\ call.method \in WrapperMethods
  /\ ret' = IF call.method \in CoreMethods THEN CoreResult(call)
            ELSE NotAFunction(call.method)
  /\ pc' = "done"
  /\ UNCHANGED <<call, run>>
  /\ UNCHANGED <<page, worker>>

-----------------------------------------------------------------------------
(* estimateGlobalTempo of the demo page and of its worker (the same code). *)

tempoConstraintsMin == 70
tempoConstraintsMax == 180
globalHopLength == 512

\* autocorr[lagIdx]: corr / norm over the frames i < length - lag, or 0
GlobalAutocorr(onsetEnvelope, lag) ==
  LET n == Len(onsetEnvelope) - lag
      corr == SumSeq([i \in 1..n |-> onsetEnvelope[i] * onsetEnvelope[i + lag]] \o <<>>)
      norm == SumSeq([i \in 1..n |-> onsetEnvelope[i] * onsetEnvelope[i]] \o <<>>)
  IN  IF norm > 0 THEN Ratio(corr, norm) ELSE 0

\* candidates.push({bpm, score, lag}) for lag = minLag..maxLag
GlobalCandidates(onsetEnvelope, sr, minLag, maxLag) ==
  [k \in 1..(maxLag - minLag + 1) |->
     [bpm |-> Ratio(60 * sr, (minLag + k - 1) * globalHopLength),
      score |-> GlobalAutocorr(onsetEnvelope, minLag + k - 1),
      lag |-> minLag + k - 1]] \o <<>>

\* the loop over the candidates: the first candidate with the highest score
\* when that score is above 0, else 120 BPM with score 0
BestCandidate(candidates) ==
  LET scores == [k \in 1..Len(candidates) |-> candidates[k].score] \o <<>>
      first == CHOOSE k \in 1..Len(candidates) :
                 /\ candidates[k].score = MaxSeq(scores)
                 /\ \A j \in 1..(k - 1) : candidates[j].score < MaxSeq(scores)
  IN  IF MaxSeq(scores) > 0
      THEN [bestBpm |-> candidates[first].bpm, bestScore |-> candidates[first].score]
      ELSE [bestBpm |-> 120 * Unit, bestScore |-> 0]

\* Math.min(1.0, Math.max(0, (bestScore - avgCorr) / (0.3 + avgCorr * 0.5)))
GlobalConfidence(bestScore, avgCorr) ==
  Min2(Unit, Max2(0, Ratio(bestScore - avgCorr, 30000 + avgCorr \div 2)))

\* the result of estimateGlobalTempo from the sorted candidates
GlobalResult(candidates, best) ==
  [kind |-> "return",
   bpm |-> Max2(tempoConstraintsMin * Unit, Min2(tempoConstraintsMax * Unit, best.bestBpm)),
   confidence |->
     GlobalConfidence(best.bestScore,
                      SumSeq([k \in 1..Len(candidates) |-> candidates[k].score] \o <<>>)
                        \div Len(candidates)),
   score |-> best.bestScore,
   candidates |-> SubSeq(candidates, 1, Min2(10, Len(candidates)))]

\* candidates.sort((a, b) => b.score - a.score) and the search for the best
GlobalRanking(candidates) == GlobalResult(candidates, BestCandidate(candidates))

\* estimateGlobalTempo(onsetEnvelope, sr)
estimateGlobalTempo(onsetEnvelope, sr) ==
  GlobalRanking(SortByScore(GlobalCandidates(
    onsetEnvelope, sr,
    (60 * sr) \div (tempoConstraintsMax * globalHopLength),
    (60 * sr) \div (tempoConstraintsMin * globalHopLength))))

EstimateGlobalTempoCall ==
  /\ pc = "call"
  /\ call.op = "estimateGlobalTempo"
  /\ ret' = estimateGlobalTempo(call.onsetEnvelope, call.sr)
  /\ pc' = "done"
  /\ UNCHANGED <<call, run>>
  /\ UNCHANGED <<page, worker>>

-----------------------------------------------------------------------------
(* The calls explored.                                                     *)

\* every envelope of at most MaxLen frames with strengths 0..MaxVal
Envelopes == UNION {[1..n -> 0..MaxVal] : n \in 0..MaxLen}

\* <<sr, hopLength>>
Rates == {<<22050, 512>>, <<22050, 4410>>}

\* createOnsetEnvelope(bpm, sr, hop, beats) of the tests: unit impulses
\* framesPerBeat apart
createOnsetEnvelope(bpm, sr, hop, beats) ==
  LET framesPerBeat == RoundDiv(sr * 60, hop * bpm)
  IN  [onset |-> [k \in 1..(framesPerBeat * beats) |->
                    IF (k - 1) % framesPerBeat = 0 THEN 1 ELSE 0] \o <<>>,
       framesPerBeat |-> framesPerBeat]

TrainBeats == 8
TrainRate == 22050
TrainHop == 512
Train(bpm) == createOnsetEnvelope(bpm, TrainRate, TrainHop, TrainBeats)

\* the envelope of the tests on invalid arguments
TestOnset == <<1, 0, 0, 0, 1, 0, 0, 0>>

\* longer envelopes that take tempoEstimation through its later stages
PathOnsets ==
  {<<3, 0, 3, 3, 0, 3, 0, 0, 0, 1, 3, 2>>, <<2, 0, 0, 0, 1, 0, 1, 0, 0, 1, 1, 0>>,
   <<3, 0, 0, 0, 1, 1, 1, 0, 0, 1, 0, 0>>, <<1, 0, 1, 0, 1, 1, 0, 1, 0, 1, 0, 0>>}

Silent(n) == [k \in 1..n |-> 0] \o <<>>

NoBuffer == [kind |-> "null", len |-> 0, flux |-> <<>>]
Buffer(len, flux) == [kind |-> "samples", len |-> len, flux |-> flux]
NoEnvelope == [given |-> FALSE, data |-> <<>>]
Envelope(e) == [given |-> TRUE, data |-> e]
NoRange == [given |-> FALSE, minBpm |-> 0, maxBpm |-> 0]
Range(lo, hi) == [given |-> TRUE, minBpm |-> lo, maxBpm |-> hi]

\* the sample buffers: a length and the spectral flux of its frames
BufferLengths == {0, 1024, 1535, 1536, 2047, 2048, 2560, 3072}

Buffers(hopLength) ==
  UNION {LET frames == Max2(0, ((len - frameLength) \div hopLength) + 1)
         IN  {Buffer(len, f) : f \in {g \in [1..frames -> 0..MaxVal] :
                                        frames = 0 \/ g[1] = 0}}
         : len \in BufferLengths}

BpmOverrides ==
  {Null, Scalar(0), Scalar(-120 * Unit), Scalar(120 * Unit),
   Array(<<120 * Unit, -120 * Unit>>)}

\* an envelope of one repeated non-zero value has standard deviation 0, and
\* its normalised values (o / 1e-10) are beyond the numbers represented here
Degenerate(e) == Len(e) >= 1 /\ e[1] # 0 /\ \A i \in 1..Len(e) : e[i] = e[1]

\* the call passes _beatTracker's checks and goes on to normalise
Tracks(bpm, tightness) ==
  /\ tightness > 0
  /\ \/ bpm.kind = "null"
     \/ bpm.kind = "scalar" /\ bpm.v > 0
     \/ bpm.kind = "array" /\ \A k \in 1..Len(bpm.a) : bpm.a[k] > 0

BeatTrackCall(y, onsetEnvelope, sr, hopLength, tightness, trim, bpm, units, sparse, quick) ==
  [op |-> "beatTrack", y |-> y, onsetEnvelope |-> onsetEnvelope, sr |-> sr,
   hopLength |-> hopLength, startBpm |-> 120 * Unit, tightness |-> tightness,
   trim |-> trim, bpm |-> bpm, units |-> units, sparse |-> sparse,
   quickDetect |-> quick, patched |-> FALSE]

\* <<units, sparse>>
Outputs == {<<"frames", TRUE>>, <<"samples", TRUE>>, <<"time", TRUE>>, <<"time", FALSE>>}

\* a beatTrack call on a given envelope with every combination of options;
\* a degenerate envelope is not sent into the tracker
EnvelopeCall(c) ==
  \E e \in Envelopes, r \in Rates, t \in {100, 0, -100}, trim \in BOOLEAN,
     bpm \in BpmOverrides, out \in Outputs, q \in BOOLEAN :
       /\ ~(Degenerate(e) /\ Tracks(bpm, t))
       /\ c = BeatTrackCall(NoBuffer, Envelope(e), r[1], r[2], t, trim, bpm,
                            out[1], out[2], q)

BufferCalls ==
  UNION {{BeatTrackCall(y, NoEnvelope, sr, hop, 100, TRUE, bpm, "time", TRUE, q) :
            y \in Buffers(hop) \cup {NoBuffer}, sr \in {0, 22050},
            bpm \in {Null, Scalar(120 * Unit)}, q \in BOOLEAN}
         : hop \in {512, 4410}}

TrainCalls ==
  {BeatTrackCall(NoBuffer, Envelope(Train(120).onset), TrainRate, TrainHop, 100, TRUE,
                 Scalar(120 * Unit), "frames", TRUE, FALSE),
   BeatTrackCall(NoBuffer, Envelope(TestOnset), TrainRate, TrainHop, 100, TRUE,
                 Scalar(-120 * Unit), "frames", TRUE, FALSE)}

\* an envelope whose rhythm starts after a silence of 60 frames
LateOnset ==
  Silent(60) \o ([k \in 1..56 |-> IF (k - 1) % 8 = 0 THEN 3 ELSE 1] \o <<>>)

\* beatTrack in quick detection mode on envelopes longer than two bars, or
\* with a rhythm that does not start at frame 0
QuickDetectCalls ==
  {BeatTrackCall(NoBuffer, Envelope(e), TrainRate, TrainHop, 100, trim, Null,
                 out[1], out[2], TRUE) :
     e \in {Train(120).onset, LateOnset}, trim \in BOOLEAN, out \in Outputs}

QuickCall(y, sr, patched) ==
  [op |-> "quickBeatTrack", y |-> y, sr |-> sr, patched |-> patched]

QuickCalls ==
  {QuickCall(y, sr, FALSE) : y \in Buffers(512) \cup {NoBuffer}, sr \in {0, 22050, 44100}}
    \cup {QuickCall(Buffer(Len(e), e), TrainRate, TRUE) :
            e \in {Train(100).onset, Train(120).onset}
                    \cup {x \in Envelopes : ~Degenerate(x)}}

TempoCall(op, e, sr, hopLength, startBpm, useEnhanced, range) ==
  [op |-> op, onsetEnvelope |-> e, sr |-> sr, hopLength |-> hopLength,
   startBpm |-> startBpm, useEnhanced |-> useEnhanced, range |-> range]

StartBpms == {90 * Unit, 120 * Unit, 200 * Unit}

TempoCalls ==
  {TempoCall("tempoEstimation", e, r[1], r[2], s, u, range) :
     e \in Envelopes \cup PathOnsets \cup {TestOnset}, r \in Rates \cup {<<22050, 2205>>},
     s \in StartBpms, u \in BOOLEAN, range \in {NoRange}}
    \cup {TempoCall("tempoEstimation", e, TrainRate, TrainHop, s, TRUE, Range(80, 120)) :
            e \in Envelopes \cup {TestOnset}, s \in StartBpms}
    \cup {TempoCall("tempoEstimation", Train(b).onset, TrainRate, TrainHop, 120 * Unit,
                    TRUE, NoRange) : b \in {100, 120}}

CoreTempoCalls ==
  {TempoCall("Core.tempoEstimation", e, r[1], r[2], s, TRUE, NoRange) :
     e \in Envelopes \cup {TestOnset}, r \in Rates, s \in StartBpms}

TempogramCalls ==
  {[op |-> "computeFourierTempogram", onsetEnvelope |-> e, sr |-> sr] :
     e \in Envelopes \cup {Silent(n) : n \in {293, 383, 384, 480}},
     sr \in {22050, 44100}}

\* an impulse every period frames
PulseTrain(period, length) ==
  [k \in 1..length |-> IF (k - 1) % period = 0 THEN 1 ELSE 0] \o <<>>

PlpBeats == 20

PlpTrain == createOnsetEnvelope(120, TrainRate, TrainHop, PlpBeats)

PlpCall(y, onsetEnvelope, sr, hopLength, tempoMin, tempoMax) ==
  [op |-> "plp", y |-> y, onsetEnvelope |-> onsetEnvelope, sr |-> sr,
   hopLength |-> hopLength, winLength |-> winLength, tempoMin |-> tempoMin,
   tempoMax |-> tempoMax]

\* tempoMin and tempoMax: the defaults 30 and 300, other ranges, empty
\* ranges and null
TempoRanges ==
  {<<Scalar(30 * Unit), Scalar(300 * Unit)>>, <<Scalar(60 * Unit), Scalar(200 * Unit)>>,
   <<Scalar(120 * Unit), Scalar(100 * Unit)>>, <<Scalar(100 * Unit), Scalar(100 * Unit)>>,
   <<Null, Null>>, <<Null, Scalar(100 * Unit)>>, <<Scalar(0), Scalar(300 * Unit)>>}

PlpCalls ==
  {PlpCall(NoBuffer, Envelope(e), sr, 512, range[1], range[2]) :
     e \in Envelopes \cup {TestOnset, PlpTrain.onset}
             \cup {Silent(n) : n \in {383, 384, 480}},
     sr \in {0, 22050}, range \in TempoRanges}
    \cup {PlpCall(NoBuffer, Envelope(PulseTrain(30, 480)), 22050, 512,
                   Scalar(60 * Unit), Scalar(200 * Unit))}
    \cup {PlpCall(y, NoEnvelope, 22050, 512, range[1], range[2]) :
            y \in Buffers(512) \cup {NoBuffer}, range \in TempoRanges}

GlobalTempoCalls ==
  {[op |-> "estimateGlobalTempo", onsetEnvelope |-> e, sr |-> sr, hopLength |-> globalHopLength,
    async |-> TRUE] :
     e \in Envelopes \cup {Train(120).onset, Train(100).onset, Silent(80)}
             \cup {PulseTrain(period, length) :
                     period \in {14, 16, 21, 28, 37}, length \in {60, 100}},
     sr \in {22050, 44100}}

\* the values of the arrays given to _normalize: 0, 2 and 4 of the test,
\* 1, a negative value and a fraction
NormalizeValues == {-Unit, 0, 33333, Unit, 2 * Unit, 4 * Unit}

NormalizeCalls ==
  {[op |-> "_normalize", x |-> x] :
     x \in UNION {[1..n -> NormalizeValues] : n \in 0..MaxLen}}

\* calls of the wrapper's public methods: tempoEstimation and onsetStrength,
\* which the core has, and the three it is asked for besides
WrapperCalls ==
  {[op |-> "BeatTracker", method |-> "tempoEstimation", y |-> NoBuffer, onsetEnvelope |-> e,
    sr |-> sr, hopLength |-> 512] :
     e \in {x \in Envelopes : ~Degenerate(x)} \cup {TestOnset}, sr \in {0, 22050}}
    \cup {[op |-> "BeatTracker", method |-> m, y |-> y, onsetEnvelope |-> <<>>,
            sr |-> 22050, hopLength |-> 512] :
             m \in {"onsetStrength", "estimateDynamicTempo", "plp"}, y \in Buffers(512)}
    \cup {[op |-> "BeatTracker", method |-> m, y |-> NoBuffer, onsetEnvelope |-> e,
            sr |-> 22050, hopLength |-> 512] :
             m \in {"plp", "fourierTempogram"}, e \in Envelopes \cup {TestOnset}}

\* cumulative scores, negative ones among them, of 1 to MaxLen frames
LastBeatCalls ==
  {[op |-> "_lastBeat", cumScore |-> x] :
     x \in UNION {[1..n -> {-3, -1, 0, 1, 2}] : n \in 1..MaxLen}}

\* local scores 0, 1 and 3 and beat flags of 1 to MaxLen frames
TrimBeatsCalls ==
  UNION {{[op |-> "_trimBeats", localScore |-> x, beats |-> b] :
            x \in [1..n -> {0, Unit, 3 * Unit}], b \in [1..n -> BOOLEAN]}
         : n \in 1..MaxLen}

\* silent frames, then active of every 10 frames at value 1, up to length
RhythmEnvelope(silent, active, length) ==
  [k \in 1..length |->
     IF k > silent /\ (k - silent - 1) % 10 < active THEN 1 ELSE 0] \o <<>>

\* envelopes of 30 to 70 frames with rhythm of every density, from frame 0
\* or after a silence
RhythmStartCalls ==
  {[op |-> "_findRhythmStart", onsetEnvelope |-> RhythmEnvelope(silent, active, length),
    sr |-> TrainRate, hopLength |-> TrainHop, silent |-> silent, active |-> active] :
     silent \in {0, 3, 18, 25, 33}, active \in 0..10, length \in {30, 40, 41, 55, 70}}
    \cup {[op |-> "_findRhythmStart", onsetEnvelope |-> e,
            sr |-> TrainRate, hopLength |-> TrainHop, silent |-> 0, active |-> 0] :
             e \in {LateOnset, Train(120).onset, TestOnset}}

Calls ==
  BufferCalls \cup TrainCalls \cup QuickCalls \cup TempoCalls
    \cup CoreTempoCalls \cup TempogramCalls \cup PlpCalls \cup GlobalTempoCalls
    \cup QuickDetectCalls \cup NormalizeCalls \cup WrapperCalls
    \cup LastBeatCalls \cup TrimBeatsCalls
    \cup RhythmStartCalls

-----------------------------------------------------------------------------
(* BeatTracker.estimateDynamicTempo.                                       *)

\* Math.floor(seconds * sampleRate), for seconds scaled by Unit
Samples(seconds, sampleRate) == (seconds * sampleRate) \div Unit

\* onsetStrength(window, sampleRate) and tempoEstimation(onset, sampleRate)
\* of a window of silent samples: the onset envelope is zero, and
\* onsetStrength throws for a window shorter than 1024 samples
SilentWindow(windowSamples, sampleRate) ==
  LET o == onsetStrength(Buffer(windowSamples,
                                Silent(Max2(0, ((windowSamples - frameLength) \div 512) + 1))),
                         512, FALSE)
  IN  IF o.throws THEN [throws |-> TRUE, tempo |-> 0]
      ELSE [throws |-> FALSE,
            tempo |-> tempoEstimation(o.onset, sampleRate, 512, 120 * Unit, TRUE).tempo]

\* one pass of the loop: the window at run.start is analysed (the samples are
\* silent, every window gives call.window) and the loop variable advances
\* by hopSamples
DynamicTempoWindow ==
  /\ pc = "call"
  /\ call.op = "estimateDynamicTempo"
  /\ run.start < call.length - Samples(call.windowSize, _detectSampleRate(call.sr))
  /\ Len(run.times) < MaxWindows
  /\ IF call.window.throws
     THEN /\ pc' = "done"
          /\ ret' = Throw("Invalid typed array length")
          /\ run' = run
     ELSE /\ pc' = pc
          /\ ret' = ret
          /\ run' = [run EXCEPT
               !.dynamicTempo = Append(run.dynamicTempo, call.window.tempo),
               !.times = Append(run.times, Ratio(run.start, _detectSampleRate(call.sr))),
               !.start = run.start + Samples(call.hopSize, _detectSampleRate(call.sr))]
  /\ UNCHANGED <<call, page, worker>>

\* the loop condition fails: { times, tempo: dynamicTempo } is returned
DynamicTempoEnd ==
  /\ pc = "call"
  /\ call.op = "estimateDynamicTempo"
  /\ ~(run.start < call.length - Samples(call.windowSize, _detectSampleRate(call.sr)))
  /\ ret' = [kind |-> "return", times |-> run.times, tempo |-> run.dynamicTempo]
  /\ pc' = "done"
  /\ UNCHANGED <<call, run, page, worker>>

\* silent buffers of up to 8000 samples (a third of a second), windows of
\* 0.01 to 0.1 s and hops of 0.00001 to 0.1 s (the two shortest are less
\* than one sample)
DynamicTempoCalls ==
  {[op |-> "estimateDynamicTempo", length |-> length, sr |-> sr,
    windowSize |-> windowSize, hopSize |-> hopSize,
    window |-> SilentWindow(Samples(windowSize, _detectSampleRate(sr)), _detectSampleRate(sr))] :
     length \in {0, 1000, 2205, 4000, 6000, 8000}, sr \in {0, 22050},
     windowSize \in {Unit \div 100, Unit \div 20, 7 * (Unit \div 100), Unit \div 10},
     hopSize \in {1, 2, Unit \div 20, Unit \div 10}}

-----------------------------------------------------------------------------
(* The demo page: its buttons, the loaded audio and the stored results.    *)

\* the buttons every analysis handler and the rejection handler re-enable
AnalysisButtons ==
  {"analyzeBtn", "quickAnalyzeBtn", "beatTrackBtn", "tempoBtn", "plpBtn"}

\* the synchronous analysis handlers: the buttons each disables and re-enables
HelperButtons == {"quickAnalyzeBtn", "beatTrackBtn", "tempoBtn", "plpBtn"}

Toggled(btn) ==
  IF btn \in {"quickAnalyzeBtn", "plpBtn"}
  THEN AnalysisButtons \cup {"playBtn"}
  ELSE {btn, "analyzeBtn", "plpBtn", "playBtn"}

\* the page once its script has run: every button disabled, no audio, the
\* initial globalTempo (owned by no buffer), no beat times, nothing playing.
\* Buffers are named by the number of the file they were decoded from.
PageIdle ==
  [chosen |-> 0, loading |-> {}, audioContext |-> FALSE, audioBuffer |-> 0,
   disabled |-> AnalysisButtons \cup {"playBtn", "stopBtn", "clickBtn"},
   runs |-> <<>>, tempoOf |-> 0, beatsOf |-> 0, clickEnabled |-> FALSE,
   sourceNode |-> FALSE, bpmInterval |-> FALSE, timers |-> 0, last |-> "load"]

Enabled(btn) == btn \notin page.disabled

\* startLiveBpmTracking: a new interval timer, whose id replaces bpmInterval
startLiveBpmTracking(p) ==
  [p EXCEPT !.bpmInterval = TRUE, !.timers = p.timers + 1]

\* stopLiveBpmTracking: clears the timer bpmInterval names, if any
stopLiveBpmTracking(p) ==
  IF p.bpmInterval
  THEN [p EXCEPT !.bpmInterval = FALSE, !.timers = p.timers - 1]
  ELSE p

\* fileInput 'change' with a file: a new AudioContext, then the handler
\* awaits the file's bytes and their decoding
FileInputChange ==
  /\ page.chosen < MaxFiles
  /\ page' = [page EXCEPT !.chosen = page.chosen + 1,
                          !.loading = page.loading \cup {page.chosen + 1},
                          !.audioContext = TRUE, !.last = "change"]
  /\ UNCHANGED <<call, pc, ret, run, worker>>

\* the rest of the 'change' handler, once decoding has settled
FileLoaded ==
  \E file \in page.loading :
    /\ \/ page' = [page EXCEPT !.loading = page.loading \ {file},
                               !.audioBuffer = file,
                               !.disabled = page.disabled \ (AnalysisButtons \cup {"playBtn"}),
                               !.last = "loaded"]
       \/ page' = [page EXCEPT !.loading = page.loading \ {file},
                               !.last = "load failed"]
    /\ UNCHANGED <<call, pc, ret, run, worker>>

\* playBtn.onclick, with a running audio context
PlayBtnClick ==
  /\ Enabled("playBtn")
  /\ page.timers < MaxTimers
  /\ IF page.audioBuffer = 0 \/ ~page.audioContext
     THEN page' = [page EXCEPT !.last = "play"]
     ELSE page' = startLiveBpmTracking(
                    [page EXCEPT !.sourceNode = TRUE,
                                 !.disabled = (page.disabled \cup {"playBtn"}) \ {"stopBtn"},
                                 !.last = "play"])
  /\ UNCHANGED <<call, pc, ret, run, worker>>

\* stopBtn.onclick
StopBtnClick ==
  /\ Enabled("stopBtn")
  /\ page' = stopLiveBpmTracking(
               [page EXCEPT !.sourceNode = FALSE,
                            !.disabled = (page.disabled \ {"playBtn"}) \cup {"stopBtn"},
                            !.last = "stop"])
  /\ UNCHANGED <<call, pc, ret, run, worker>>

\* analyzeBtn.onclick up to the first timer yield of analyzeWithProgress: the
\* run keeps the samples y of the buffer loaded at the click
AnalyzeBtnClick ==
  /\ Enabled("analyzeBtn")
  /\ page.audioBuffer # 0
  /\ Len(page.runs) < MaxRuns
  /\ page' = [page EXCEPT !.disabled = page.disabled \cup AnalysisButtons \cup {"playBtn"},
                          !.runs = Append(page.runs, [y |-> page.audioBuffer, yields |-> 0]),
                          !.last = "analyze"]
  /\ UNCHANGED <<call, pc, ret, run, worker>>

\* a run resumes after a timer and yields again
AnalyzeYield ==
  \E k \in 1..Len(page.runs) :
    /\ page.runs[k].yields < MaxYields
    /\ page' = [page EXCEPT !.runs[k].yields = page.runs[k].yields + 1,
                            !.last = "yield"]
    /\ UNCHANGED <<call, pc, ret, run, worker>>

\* a run resumes after its last timer and runs to the end of the handler: it
\* stores globalTempo and the beat times of y, or fails, and its finally
\* block re-enables the buttons
AnalyzeFinally ==
  \E k \in 1..Len(page.runs) :
    /\ \/ page' = [page EXCEPT !.tempoOf = page.runs[k].y,
                               !.beatsOf = page.runs[k].y,
                               !.disabled = page.disabled \ (AnalysisButtons \cup {"playBtn", "clickBtn"}),
                               !.runs = SubSeq(page.runs, 1, k - 1) \o SubSeq(page.runs, k + 1, Len(page.runs)),
                               !.last = "analyzed"]
       \/ page' = [page EXCEPT !.disabled = page.disabled \ (AnalysisButtons \cup {"playBtn"}),
                               !.runs = SubSeq(page.runs, 1, k - 1) \o SubSeq(page.runs, k + 1, Len(page.runs)),
                               !.last = "analysis failed"]
    /\ UNCHANGED <<call, pc, ret, run, worker>>

\* quickAnalyzeBtn, beatTrackBtn, tempoBtn and plpBtn .onclick: synchronous;
\* tempo() stores no beats and PLP leaves the beat times alone
HelperBtnClick(btn) ==
  /\ Enabled(btn)
  /\ page.audioBuffer # 0
  /\ \/ page' = [page EXCEPT !.tempoOf = page.audioBuffer,
                             !.beatsOf = IF btn = "tempoBtn" THEN 0
                                         ELSE IF btn = "plpBtn" THEN page.beatsOf
                                         ELSE page.audioBuffer,
                             !.disabled = (page.disabled \ Toggled(btn))
                                            \ (IF btn \in {"quickAnalyzeBtn", "beatTrackBtn"}
                                               THEN {"clickBtn"} ELSE {}),
                             !.last = btn]
     \/ page' = [page EXCEPT !.disabled = page.disabled \ Toggled(btn),
                             !.last = "helper failed"]
  /\ UNCHANGED <<call, pc, ret, run, worker>>

\* clickBtn.onclick: playback restarts when playing, the tracking timer stays
ClickBtnClick ==
  /\ Enabled("clickBtn")
  /\ page' = [page EXCEPT !.clickEnabled = ~page.clickEnabled, !.last = "click"]
  /\ UNCHANGED <<call, pc, ret, run, worker>>

\* the window's 'unhandledrejection' handler
UnhandledRejection ==
  /\ page' = [page EXCEPT !.disabled = page.disabled \ (AnalysisButtons \cup {"playBtn"}),
                          !.last = "rejection"]
  /\ UNCHANGED <<call, pc, ret, run, worker>>

-----------------------------------------------------------------------------
(* The worker-based analyzer: the page, the worker and their messages.     *)

\* after DOMContentLoaded: the worker started, no file selected, nothing in
\* flight, no BPM displayed.  Files are named by the order of selection.
WorkerIdle ==
  [selected |-> 0, reading |-> {}, inbox |-> <<>>, decoding |-> {},
   outbox |-> <<>>, display |-> [file |-> 0, text |-> "none"],
   posted |-> <<>>, applied |-> <<>>]

\* handleFile up to its await: the file's bytes are being read
HandleFile ==
  /\ worker.selected < MaxPosts
  /\ worker' = [worker EXCEPT !.selected = worker.selected + 1,
                              !.reading = worker.reading \cup {worker.selected + 1}]
  /\ UNCHANGED <<call, pc, ret, run, page>>

\* the rest of handleFile: the bytes are posted to the worker, or reading
\* failed and the error is logged
FilePosted ==
  \E file \in worker.reading :
    /\ \/ worker' = [worker EXCEPT !.reading = worker.reading \ {file},
                                   !.inbox = Append(worker.inbox, file),
                                   !.posted = Append(worker.posted, file)]
       \/ worker' = [worker EXCEPT !.reading = worker.reading \ {file}]
    /\ UNCHANGED <<call, pc, ret, run, page>>

\* self.onmessage up to its await: the next message is taken and decoding
\* starts
WorkerOnMessage ==
  /\ worker.inbox # <<>>
  /\ worker' = [worker EXCEPT !.inbox = Tail(worker.inbox),
                              !.decoding = worker.decoding \cup {Head(worker.inbox)}]
  /\ UNCHANGED <<call, pc, ret, run, page>>

\* the rest of self.onmessage: decoding settled, the worker replies with the
\* bpm of quickBeatTrack or with the error
WorkerReply ==
  \E file \in worker.decoding, text \in {"bpm", "error"} :
    /\ worker' = [worker EXCEPT !.decoding = worker.decoding \ {file},
                                !.outbox = Append(worker.outbox, [file |-> file, text |-> text])]
    /\ UNCHANGED <<call, pc, ret, run, page>>

\* the page's 'message' listener: the reply is written to the BPM display
PageOnMessage ==
  /\ worker.outbox # <<>>
  /\ worker' = [worker EXCEPT !.outbox = Tail(worker.outbox),
                              !.display = Head(worker.outbox),
                              !.applied = Append(worker.applied, Head(worker.outbox).file)]
  /\ UNCHANGED <<call, pc, ret, run, page>>


Init ==
  /\ EnvelopeCall(call) \/ call \in Calls
  /\ pc = "call"
  /\ ret = NoReturn
  /\ run = Idle
  /\ page = PageIdle
  /\ worker = WorkerIdle

Next ==
  \/ BeatTrackBegin
  \/ DPForward
  \/ BeatTrackEnd
  \/ TempoEstimationCall
  \/ CoreTempoEstimationCall
  \/ ComputeFourierTempogramCall
  \/ EstimateGlobalTempoCall
  \/ NormalizeCall
  \/ FindRhythmStartCall
  \/ TrimBeatsCall
  \/ LastBeatCall
  \/ WrapperCall
  \/ PlpBegin
  \/ PlpFrame
  \/ PlpEnd

Spec == Init /\ [][Next]_vars

\* the demo page alone: no call of the library is in progress
PageInit ==
  /\ call = [op |-> "page"]
  /\ pc = "page"
  /\ ret = NoReturn
  /\ run = Idle
  /\ page = PageIdle
  /\ worker = WorkerIdle

PageNext ==
  \/ FileInputChange
  \/ FileLoaded
  \/ PlayBtnClick
  \/ StopBtnClick
  \/ AnalyzeBtnClick
  \/ AnalyzeYield
  \/ AnalyzeFinally
  \/ \E btn \in HelperButtons : HelperBtnClick(btn)
  \/ ClickBtnClick
  \/ UnhandledRejection

PageSpec == PageInit /\ [][PageNext]_vars

\* estimateDynamicTempo alone; the loop goes on while it can
DynamicInit ==
  /\ call \in DynamicTempoCalls
  /\ pc = "call"
  /\ ret = NoReturn
  /\ run = Idle
  /\ page = PageIdle
  /\ worker = WorkerIdle

DynamicNext ==
  \/ DynamicTempoWindow
  \/ DynamicTempoEnd

DynamicSpec == DynamicInit /\ [][DynamicNext]_vars /\ WF_vars(DynamicNext)

\* the worker-based page alone
WorkerNext ==
  \/ HandleFile
  \/ FilePosted
  \/ WorkerOnMessage
  \/ WorkerReply
  \/ PageOnMessage

WorkerSpec == PageInit /\ [][WorkerNext]_vars

-----------------------------------------------------------------------------
(* Properties.                                                             *)

Done == pc = "done"

\* a bpm override that is <= 0: a number, or an array with such a value
NonPositive(bpm) ==
  \/ bpm.kind = "scalar" /\ bpm.v <= 0
  \/ bpm.kind = "array" /\ \E k \in 1..Len(bpm.a) : bpm.a[k] <= 0

BpmError == Throw("BPM must be strictly positive")

\* C1 as stated: for every onset envelope and every bpm override <= 0,
\* beatTrack fails with 'BPM must be strictly positive'.
C1_AsStated ==
  (Done /\ call.op = "beatTrack" /\ call.onsetEnvelope.given /\ NonPositive(call.bpm))
    => ret = BpmError

\* C1 amended: for every onset envelope with at least one non-zero value and
\* every bpm override <= 0, beatTrack fails with 'BPM must be strictly
\* positive' and returns no result.
C1_NonPositiveBpmThrows ==
  (/\ Done /\ call.op = "beatTrack" /\ call.onsetEnvelope.given
   /\ NonPositive(call.bpm)
   /\ _hasAnyValue(call.onsetEnvelope.data))
    => ret = BpmError

\* a bpm of 0 with quick detection on and tightness 0 has thrown the BPM error
C1_Witness ==
  /\ Done /\ call.op = "beatTrack" /\ call.onsetEnvelope.given
  /\ call.bpm = Scalar(0) /\ call.quickDetect /\ call.tightness = 0
  /\ _hasAnyValue(call.onsetEnvelope.data)
  /\ ret = BpmError

\* C2: for every all-zero onset envelope (the empty one included) beatTrack
\* returns tempo 0 and no beats -- an empty list when sparse, an all-zero
\* array of the envelope's length when dense -- whatever the other options.
C2_SilentEnvelopeReturnsZero ==
  (/\ Done /\ call.op = "beatTrack" /\ call.onsetEnvelope.given
   /\ ~_hasAnyValue(call.onsetEnvelope.data))
    => /\ ret.kind = "return"
       /\ ret.tempo = Scalar(0)
       /\ ret.beats = IF call.sparse THEN <<>> ELSE Silent(Len(call.onsetEnvelope.data))

\* a dense call on a silent envelope of several frames, with a negative bpm
\* and tightness 0, has returned
C2_Witness ==
  /\ Done /\ call.op = "beatTrack" /\ call.onsetEnvelope.given
  /\ Len(call.onsetEnvelope.data) >= 2 /\ ~_hasAnyValue(call.onsetEnvelope.data)
  /\ ~call.sparse /\ NonPositive(call.bpm) /\ call.tightness = 0
  /\ ret.kind = "return" /\ Len(ret.beats) = Len(call.onsetEnvelope.data)

\* C3 as stated: for every sample buffer of any length >= 0 and valid
\* options beatTrack returns without throwing, and a buffer shorter than one
\* analysis frame yields tempo 0 and no beats.
C3_AsStated ==
  (Done /\ call.op = "beatTrack" /\ ~call.onsetEnvelope.given /\ call.y.kind = "samples")
    => /\ ret.kind = "return"
       /\ call.y.len < frameLength => (ret.tempo = Scalar(0) /\ ret.beats = <<>>)

\* C4 as stated: for every onset envelope shorter than winLength,
\* computeFourierTempogram returns zero frames and no peak tempos and does
\* not throw.
C4_AsStated ==
  (Done /\ call.op = "computeFourierTempogram" /\ Len(call.onsetEnvelope) < winLength)
    => (ret.kind = "return" /\ ret.frames = 0 /\ ret.peakTempos = <<>>)

\* C5 as stated: when the underlying beatTrack call fails, quickBeatTrack
\* returns bpm 0, an empty beats list and confidence 0.
C5_AsStated ==
  (/\ Done /\ call.op = "quickBeatTrack"
   /\ BeatTrackSetup(Options(call)).outcome = "throw")
    => ret = [kind |-> "return", bpm |-> 0, beats |-> <<>>, confidence |-> 0]

\* C6 as stated: the value returned by tempoEstimation lies within the
\* caller's [minBpm, maxBpm], and within [30, 300] when no range is given.
C6_AsStated ==
  (Done /\ call.op = "tempoEstimation")
    => IF call.range.given
       THEN /\ ret.tempo >= call.range.minBpm * Unit
            /\ ret.tempo <= call.range.maxBpm * Unit
       ELSE ret.tempo >= minBpm * Unit /\ ret.tempo <= maxBpm * Unit

\* the autocorrelation of the call's envelope over the lags searched has no
\* peak of the prominence the estimator asks for (5% of the maximum, 10% in
\* BeatTrackerCore)
NoPeakFound ==
  LET sampleRate == _detectSampleRate(call.sr)
      lo == (60 * sampleRate) \div (maxBpm * call.hopLength)
      hi == CeilDiv(60 * sampleRate, minBpm * call.hopLength)
      minProminence == IF call.op = "tempoEstimation" THEN 5000 ELSE 10000
  IN  Len(_findPeaksWithProminence(Autocorr(call.onsetEnvelope, lo, hi), minProminence)) = 0

TrainEstimate(b) ==
  /\ call.op = "tempoEstimation"
  /\ call.onsetEnvelope = Train(b).onset
  /\ call.sr = TrainRate /\ call.hopLength = TrainHop
  /\ call.startBpm = 120 * Unit /\ ~call.range.given

\* C8 as stated: for sr = 22050, hop = 512 and each bpm in {120, 100}, the
\* tempo estimated for the 8-beat impulse train rounds to bpm.
C8_AsStated ==
  \A b \in {100, 120} : (Done /\ TrainEstimate(b)) => Round(ret.tempo) = b * Unit

\* the call of the beat-tracking test: the 120-BPM train, bpm = 120, units
\* 'frames', sparse, default trim
TrainTrack ==
  /\ call.op = "beatTrack"
  /\ call.onsetEnvelope = Envelope(Train(120).onset)
  /\ call.sr = TrainRate /\ call.hopLength = TrainHop
  /\ call.bpm = Scalar(120 * Unit) /\ call.units = "frames"
  /\ call.sparse /\ call.trim /\ call.tightness = 100

\* C9: for the 120-BPM impulse train over 8 periods, beatTrack with
\* bpm = 120, units 'frames', sparse output and default trim returns 8 beats,
\* the first at frame 0 and the second at frame framesPerBeat.
C9_OneBeatPerPeriod ==
  (Done /\ TrainTrack)
    => /\ ret.kind = "return"
       /\ Len(ret.beats) = TrainBeats
       /\ ret.beats[1] = 0
       /\ ret.beats[2] = Train(120).framesPerBeat

\* the tracker has run over the train and returned beats
C9_Witness ==
  /\ Done /\ TrainTrack
  /\ Len(run.cumScore) = TrainBeats * Train(120).framesPerBeat
  /\ ret.kind = "return" /\ Len(ret.beats) > 0

\* C10 as stated: quickBeatTrack on the impulse train of 8 periods, with
\* onsetStrength replaced by the identity, reports the train's tempo (100 in
\* the unit test, 120 through the worker), 8 beats and a confidence > 0.
C10_AsStated ==
  \A b \in {100, 120} :
    (/\ Done /\ call.op = "quickBeatTrack" /\ call.patched
     /\ call.y.flux = Train(b).onset /\ call.sr = TrainRate)
      => /\ Round(ret.bpm) = b * Unit
         /\ Len(ret.beats) = TrainBeats
         /\ ret.confidence > 0

-----------------------------------------------------------------------------
(* plp.                                                                    *)

\* a plp call on a given envelope with tempoMax <= tempoMin
PlpEmptyRange ==
  /\ call.op = "plp"
  /\ call.onsetEnvelope.given
  /\ call.tempoMin.kind = "scalar"
  /\ call.tempoMax.kind = "scalar"
  /\ call.tempoMax.v <= call.tempoMin.v

\* C11: plp with tempoMax <= tempoMin fails with the error that names both
\* values, for every onset envelope, before any tempogram frame is computed,
\* and returns no pulse curve
C11_EmptyTempoRangeThrows ==
  PlpEmptyRange =>
    /\ pc # "plp"
    /\ run = Idle
    /\ Done => /\ ret.kind = "throw"
               /\ ret.error = "tempoMax must be larger than tempoMin"
               /\ ret.tempoMax = call.tempoMax.v
               /\ ret.tempoMin = call.tempoMin.v

\* the test's call plp({onsetEnvelope, tempoMin: 120, tempoMax: 100}) has
\* failed with 'tempoMax=100 must be larger than tempoMin=120'
C11_Witness ==
  /\ Done
  /\ PlpEmptyRange
  /\ call.onsetEnvelope.data = TestOnset
  /\ call.sr = 0
  /\ ret.kind = "throw"
  /\ ret.tempoMax = 100 * Unit
  /\ ret.tempoMin = 120 * Unit

-----------------------------------------------------------------------------
(* Tightness.                                                              *)

TightnessError == Throw("Tightness must be strictly positive")

\* C12 as stated: every call of beatTrack with tightness <= 0 fails with
\* 'Tightness must be strictly positive'.
C12_AsStated ==
  (Done /\ call.op = "beatTrack" /\ call.tightness <= 0) => ret = TightnessError

\* C12 amended: every call of beatTrack with an onset envelope that has a
\* non-zero value, a bpm that is absent or strictly positive and a tightness
\* <= 0 fails with 'Tightness must be strictly positive'; the forward pass
\* is never entered and no beats are returned.
C12_NonPositiveTightnessThrows ==
  (/\ call.op = "beatTrack" /\ call.onsetEnvelope.given
   /\ _hasAnyValue(call.onsetEnvelope.data)
   /\ ~NonPositive(call.bpm)
   /\ call.tightness <= 0)
    => /\ pc # "forward"
       /\ Done => ret = TightnessError

\* a call with tightness -100, an estimated tempo and quick detection has
\* thrown the tightness error
C12_Witness ==
  /\ Done /\ call.op = "beatTrack" /\ call.onsetEnvelope.given
  /\ _hasAnyValue(call.onsetEnvelope.data)
  /\ call.bpm = Null /\ call.tightness = -100 /\ call.quickDetect
  /\ ret = TightnessError

-----------------------------------------------------------------------------
(* The candidate list of estimateGlobalTempo. *)

GlobalTempoDone == pc = "done" /\ call.op = "estimateGlobalTempo"

\* C13: the candidate list returned by estimateGlobalTempo is sorted by
\* descending score and, of two candidates with the same score, the one with
\* the lower bpm comes first.  The sort is stable over candidates pushed by
\* ascending lag, so candidates of equal score come with the higher bpm first.
C13_AsStated ==
  GlobalTempoDone =>
    \A i \in 1..Len(ret.candidates) : \A j \in (i + 1)..Len(ret.candidates) :
      /\ ret.candidates[i].score >= ret.candidates[j].score
      /\ ret.candidates[i].score = ret.candidates[j].score
           => ret.candidates[i].bpm <= ret.candidates[j].bpm

\* C14: whenever some candidate has a positive score, the bpm reported by
\* estimateGlobalTempo is the bpm of the first returned candidate and the
\* reported score is that candidate's score.  The reported bpm is clamped to
\* 70..180 while the candidate at the smallest lag lies above 180.
C14_AsStated ==
  (GlobalTempoDone /\ \E k \in 1..Len(ret.candidates) : ret.candidates[k].score > 0) =>
    /\ ret.bpm = ret.candidates[1].bpm
    /\ ret.score = ret.candidates[1].score

-----------------------------------------------------------------------------
(* Backlinks and the order of the beats. *)

\* following the backlinks from frame n reaches -1 within fuel steps
RECURSIVE EndsWithin(_, _, _)
EndsWithin(backlinks, n, fuel) ==
  IF n < 0 THEN TRUE
  ELSE IF fuel = 0 THEN FALSE
  ELSE EndsWithin(backlinks, At(backlinks, n), fuel - 1)

StrictlyIncreasing(x) == \A k \in 1..(Len(x) - 1) : x[k] < x[k + 1]

BeatTrackDone == pc = "done" /\ call.op = "beatTrack" /\ ret.kind = "return"

\* C15: the backlink recorded for frame i is -1 or a frame before i, so that
\* following the backlinks from any frame of a finished forward pass reaches
\* -1 within N steps, and the beats beatTrack returns in sparse form are
\* strictly increasing.
C15_BacklinksEnd ==
  /\ \A k \in 1..Len(run.backlink) :
       run.backlink[k] = -1 \/ (run.backlink[k] >= 0 /\ run.backlink[k] < k - 1)
  /\ (pc = "forward" /\ Len(run.backlink) = Len(run.localScore))
       => \A n \in 0..(Len(run.backlink) - 1) :
            EndsWithin(run.backlink, n, Len(run.backlink))
  /\ (BeatTrackDone /\ call.sparse) => StrictlyIncreasing(ret.beats)

\* a sparse result of three beats or more read back over backlinks
C15_Witness ==
  /\ BeatTrackDone /\ call.sparse
  /\ Len(ret.beats) >= 3
  /\ \E k \in 1..Len(run.backlink) : run.backlink[k] >= 0

-----------------------------------------------------------------------------
(* The frame axis of the beats. *)

\* the first input frame that beatTrack analyses
FirstAnalysed(o) ==
  IF o.quickDetect /\ Falsy(o.bpm) THEN _findRhythmStart(o.onsetEnvelope.data) ELSE 0

\* C16: the beats beatTrack returns are on the frame axis of the envelope it
\* was given, in quick detection mode too: the dense result has one entry for
\* each frame of the given envelope, and a sparse beat is a frame of the
\* given envelope among those analysed, in the units asked for.  In quick
\* detection mode the tracker works on onset.slice(startFrame, endFrame) and
\* its frames are returned as they are.
C16_AsStated ==
  (BeatTrackDone /\ call.onsetEnvelope.given) =>
    IF call.sparse
    THEN \A k \in 1..Len(ret.beats) :
           ret.beats[k] >= BeatUnits(call, _detectSampleRate(call.sr), <<>>,
                                     <<FirstAnalysed(call)>>)[1]
    ELSE Len(ret.beats) = Len(call.onsetEnvelope.data)

-----------------------------------------------------------------------------
(* The pulse curve of plp. *)

\* a plp call on a given envelope with a tempo range that is not empty
PlpValidRange ==
  /\ call.op = "plp"
  /\ call.onsetEnvelope.given
  /\ ~EmptyRange(call.tempoMin, call.tempoMax)

\* C17: for every onset envelope, shorter than winLength or not, and every
\* tempo range that is not empty, plp returns a curve with as many values as
\* the envelope, each of them in [0, 1].
C17_PulseLengthAndRange ==
  (Done /\ PlpValidRange) =>
    /\ ret.kind = "return"
    /\ Len(ret.pulse) = Len(call.onsetEnvelope.data)
    /\ \A k \in 1..Len(ret.pulse) : ret.pulse[k] >= 0 /\ ret.pulse[k] <= Unit

\* the pulse of the 440-frame impulse train has been returned, with its
\* highest value at 1
C17_Witness ==
  /\ Done /\ PlpValidRange
  /\ call.onsetEnvelope.data = PlpTrain.onset
  /\ ret.kind = "return"
  /\ \E k \in 1..Len(ret.pulse) : ret.pulse[k] = Unit

-----------------------------------------------------------------------------
(* _normalize. *)

NormalizeDone == Done /\ call.op = "_normalize"

\* C18: _normalize of a normalised array has the values of that array, and
\* an array with minimum 0 and maximum 1 keeps its values; a strictly
\* increasing array comes out with 0 first and 1 last; an array of range 0
\* is returned as it is.
C18_NormalizeIdempotent ==
  NormalizeDone =>
    /\ _normalize(ret.x) = ret.x
    /\ (Len(call.x) > 0 /\ MinSeq(call.x) = 0 /\ MaxSeq(call.x) = Unit)
         => ret.x = call.x
    /\ (Len(call.x) >= 2 /\ StrictlyIncreasing(call.x))
         => ret.x[1] = 0 /\ ret.x[Len(ret.x)] = Unit
    /\ (Len(call.x) > 0 /\ MinSeq(call.x) = MaxSeq(call.x)) => ret.x = call.x

\* the test's array [0, 2, 4] has become [0, 0.5, 1]
C18_Witness ==
  /\ NormalizeDone
  /\ call.x = <<0, 2 * Unit, 4 * Unit>>
  /\ ret.x = <<0, Unit \div 2, Unit>>

-----------------------------------------------------------------------------
(* The peaks of the pulse curve. *)

\* findPeaks(data) of the test: the frames i with
\* data[i] > data[i - 1] && data[i] >= data[i + 1]
findPeaks(data) ==
  {i \in 1..(Len(data) - 2) : At(data, i) > At(data, i - 1) /\ At(data, i) >= At(data, i + 1)}

\* the test's call: plp({onsetEnvelope: onset, sr: 22050, hopLength: 512})
\* on the impulse train at 120 BPM over 20 beats
PlpTrainCall ==
  /\ call.op = "plp"
  /\ call.onsetEnvelope.given
  /\ call.onsetEnvelope.data = PlpTrain.onset
  /\ call.sr = TrainRate /\ call.hopLength = TrainHop
  /\ call.tempoMin = Scalar(30 * Unit) /\ call.tempoMax = Scalar(300 * Unit)

\* C19: for the impulse train at 120 BPM over 20 beats (sr 22050, hop 512,
\* default options) the pulse curve of plp has a peak within 2 frames of
\* every beat frame i * framesPerBeat, i = 2 .. 17, whichever of the bins
\* tied at the peak magnitude are kept.
C19_PeaksAtBeats ==
  (Done /\ PlpTrainCall) =>
    /\ ret.kind = "return"
    /\ \A i \in 2..(PlpBeats - 3) :
         \E p \in findPeaks(ret.pulse) :
           p - i * PlpTrain.framesPerBeat \in -2..2

\* the pulse of the impulse train has been returned with a peak at frame 44
C19_Witness ==
  /\ Done /\ PlpTrainCall
  /\ ret.kind = "return"
  /\ Len(ret.pulse) = PlpBeats * PlpTrain.framesPerBeat
  /\ 2 * PlpTrain.framesPerBeat \in findPeaks(ret.pulse)

-----------------------------------------------------------------------------
(* The wrapper and the core. *)

\* C20: every public method of the browser-ready BeatTracker that the guide
\* documents or uses (beatTrack, tempoEstimation, onsetStrength,
\* estimateDynamicTempo, plp, fourierTempogram) is implemented by
\* BeatTrackerCore, so a call of it on the wrapper delivers the core's result
\* and does not fail for want of the delegated method.  The core has no
\* estimateDynamicTempo, plp or fourierTempogram.
C20_AsStated ==
  (Done /\ call.op = "BeatTracker" /\ call.method \in GuideMethods) =>
    /\ call.method \in CoreMethods
    /\ ret # NotAFunction(call.method)

-----------------------------------------------------------------------------
(* The forward pass of _beatTrackDP. *)

\* the frames per beat in force at frame i of the run
RunFpb(i) ==
  At(run.framesPerBeat,
     IF Len(run.framesPerBeat) > 1 THEN Min2(i, Len(run.framesPerBeat) - 1) ELSE 0)

\* the frame the forward pass has just processed
LastFrame == Len(run.backlink) - 1

Forward == pc = "forward" /\ LastFrame >= 1

\* C21: every predecessor loc scored for frame i >= 1 has 0 <= loc < i and
\* round(0.5 * fpb) <= i - loc <= round(2.5 * fpb); when there is none,
\* cumScore[i] is localScore[i] and no predecessor is recorded.  The bounds
\* of the search are clipped to 0 one by one, so for i < round(0.5 * fpb)
\* frame 0 is scored at an interval shorter than half a beat.
C21_AsStated ==
  Forward =>
    /\ \A loc \in SearchStart(LastFrame, RunFpb(LastFrame))
                    ..LastScored(LastFrame, RunFpb(LastFrame)) :
         /\ loc >= 0 /\ loc < LastFrame
         /\ LastFrame - loc >= RoundDiv(RunFpb(LastFrame), 2)
         /\ LastFrame - loc <= RoundDiv(5 * RunFpb(LastFrame), 2)
    /\ SearchStart(LastFrame, RunFpb(LastFrame)) > LastScored(LastFrame, RunFpb(LastFrame))
         => /\ At(run.cumScore, LastFrame) = At(run.localScore, LastFrame)
            /\ At(run.backlink, LastFrame) = -1

\* 0.01 * Math.max(...localScore) of the run
RunThresh == MaxSeq(run.localScore) \div 100

\* some frame up to i has a local score of 1% of the maximum or more
ArmedBy(i) == \E j \in 0..i : At(run.localScore, j) >= RunThresh

\* the best predecessor of frame i, -1 when none is scored
BestPredecessor(i) ==
  SearchLoc(run.cumScore, i, RunFpb(i), Options(call).tightness,
            SearchStart(i, RunFpb(i)), LastScored(i, RunFpb(i)))[2]

\* C22: a frame i >= 1 processed before the first frame whose local score
\* is 1% of the maximum or more gets backlink -1, and from that frame on
\* every frame records its best predecessor, whatever its own score.  The
\* loop starts at frame 1, so a score above the threshold at frame 0 arms
\* nothing and the frames after it stay terminated until one of them
\* reaches the threshold itself.
C22_AsStated ==
  Forward =>
    At(run.backlink, LastFrame) =
      IF ArmedBy(LastFrame) THEN BestPredecessor(LastFrame) ELSE -1

-----------------------------------------------------------------------------
(* _lastBeat. *)

\* the frames of x that are local maxima: above both neighbours, or above
\* the only neighbour at an end, or the only frame
LocalMaxima(x) ==
  {i \in 0..(Len(x) - 1) :
     /\ i > 0 => At(x, i) > At(x, i - 1)
     /\ i < Len(x) - 1 => At(x, i) > At(x, i + 1)}

\* the value at position floor(n / 2) of the n scores of the frames S in
\* ascending order
MedianOf(x, S) ==
  CHOOSE m \in {At(x, i) : i \in S} :
    /\ Cardinality({i \in S : At(x, i) < m}) <= Cardinality(S) \div 2
    /\ Cardinality({i \in S : At(x, i) <= m}) > Cardinality(S) \div 2

\* the local maxima with a score of half the median or more
TailCandidates(x) ==
  {i \in LocalMaxima(x) : 2 * At(x, i) >= MedianOf(x, LocalMaxima(x))}

LastBeatDone == Done /\ call.op = "_lastBeat"

-----------------------------------------------------------------------------
(* _trimBeats. *)

TrimDone == Done /\ call.op = "_trimBeats"

\* the beats of the call, as frames
TrimBeatSet == {i \in 0..(Len(call.beats) - 1) : At(call.beats, i)}

\* the local score of frame i in whole units
WholeScore(i) == At(call.localScore, i) \div Unit

\* the beats with a local score above half the RMS of the beats' scores:
\* s > 0.5 * sqrt(sum / n), that is 4 * n * s * s > sum for s >= 0
StrongBeats ==
  {i \in TrimBeatSet :
     4 * Cardinality(TrimBeatSet) * WholeScore(i) * WholeScore(i)
       > SumSeq([k \in 1..Len(call.beats) |->
                   IF call.beats[k] THEN WholeScore(k - 1) * WholeScore(k - 1) ELSE 0] \o <<>>)}

\* C24: _trimBeats removes a beat exactly when it lies before the first or
\* after the last beat whose local score is above half the RMS of the
\* beats' local scores; the beats between those two are kept, no beat is
\* added, the array given is not modified, and a beat remains whenever some
\* beat has a positive local score.
C24_TrimsOnlyEnds ==
  TrimDone =>
    /\ Len(ret.trimmed) = Len(call.beats)
    /\ \A i \in 0..(Len(call.beats) - 1) :
         At(ret.trimmed, i) <=>
           /\ i \in TrimBeatSet
           /\ \E j \in StrongBeats : j <= i
           /\ \E j \in StrongBeats : j >= i
    /\ ret.beats = call.beats
    /\ (\E i \in TrimBeatSet : WholeScore(i) > 0) => \E i \in TrimBeatSet : At(ret.trimmed, i)

\* of the beats at frames 0..3 with scores 1, 3, 0, 3 the first is removed
\* and the weak beat between the strong ones is kept
C24_Witness ==
  /\ TrimDone
  /\ call.localScore = <<Unit, 3 * Unit, 0, 3 * Unit>>
  /\ call.beats = <<TRUE, TRUE, TRUE, TRUE>>
  /\ ret.trimmed = <<FALSE, TRUE, TRUE, TRUE>>

-----------------------------------------------------------------------------
(* The tempo constraints of plp. *)

\* the tempo frequency of bin j lies outside [tempoMin, tempoMax]
OutsideTempoRange(j) ==
  \/ /\ call.tempoMin.kind # "null"
     /\ _fourierTempoFrequencies(_detectSampleRate(call.sr), call.hopLength, j)
          < call.tempoMin.v
  \/ /\ call.tempoMax.kind # "null"
     /\ _fourierTempoFrequencies(_detectSampleRate(call.sr), call.hopLength, j)
          > call.tempoMax.v

\* C25: after the tempo constraints of plp every bin j, 0 <= j < winLength,
\* whose tempo frequency lies outside [tempoMin, tempoMax] is zero, so that
\* no such bin is kept as the dominant periodicity of a frame.  The frames
\* have winLength bins but tempoFrequencies has winLength / 2 + 1 entries:
\* the bins above winLength / 2 are never set to zero and are kept when they
\* are at the peak.
C25_AsStated ==
  (call.op = "plp" /\ pc \in {"plp", "done"} /\ run.frame >= 1) =>
    \A j \in run.kept : ~OutsideTempoRange(j)

-----------------------------------------------------------------------------
(* _findRhythmStart. *)

RhythmStartDone == Done /\ call.op = "_findRhythmStart"

\* the mean of the 20 frames ending at frame i is above 10% of the peak
SustainedAt(x, i) ==
  10 * SumSeq([j \in 1..20 |-> At(x, i - j + 1)] \o <<>>) > 20 * MaxSeq(x)

\* the frames among the 10 from frame i on that are above 5% of the peak
LivelyFrom(x, i) == {k \in 0..9 : 20 * At(x, i + k) > MaxSeq(x)}

\* the frames i, 20 <= i < N - 20, with a sustained mean and at least
\* quarter of the following 10 frames lively
QuarterStarts(x) ==
  {i \in 20..(Len(x) - 21) : SustainedAt(x, i) /\ 4 * Cardinality(LivelyFrom(x, i)) >= 10}

\* the same with more than half of the following 10 frames lively
HalfStarts(x) ==
  {i \in 20..(Len(x) - 21) : SustainedAt(x, i) /\ Cardinality(LivelyFrom(x, i)) > 5}

\* the frame 20 before the first of the frames S, or 0
StartBefore(S) == IF S = {} THEN 0 ELSE (CHOOSE i \in S : \A h \in S : i <= h) - 20

\* C26 as stated: _findRhythmStart returns the frame 20 before the first
\* index i, 20 <= i < N - 20, where the mean of the 20 frames ending at i
\* exceeds 10% of the peak and at least 25% of the 10 frames from i on exceed
\* half that threshold, 0 when there is none, always a frame in 0..N-1.
C26_AsStated ==
  RhythmStartDone =>
    /\ ret.startFrame = StartBefore(QuarterStarts(call.onsetEnvelope))
    /\ ret.startFrame \in 0..(Len(call.onsetEnvelope) - 1)

\* C26 amended: the second condition is that more than half of the 10 frames
\* from i on (6 or more) exceed half the threshold.
C26_MoreThanHalfLively ==
  RhythmStartDone =>
    /\ ret.startFrame = StartBefore(HalfStarts(call.onsetEnvelope))
    /\ ret.startFrame \in 0..(Len(call.onsetEnvelope) - 1)

\* a rhythm found after a silence: the start is past frame 0
C26_Witness ==
  /\ RhythmStartDone
  /\ call.silent = 25 /\ call.active = 6
  /\ ret.startFrame > 0

-----------------------------------------------------------------------------
(* The demo page. *)

\* an analysis handler can start: its button is enabled and audio is loaded
CanStart(btn) == Enabled(btn) /\ page.audioBuffer # 0

\* C27 as stated: while a full Analyze run is between its start and its
\* finally block no analysis handler can start, and the tempo and beat times
\* a run has just stored belong to the loaded audio buffer.
C27_AsStated ==
  /\ page.runs # <<>> => \A btn \in AnalysisButtons : ~CanStart(btn)
  /\ page.last = "analyzed" =>
       page.tempoOf = page.audioBuffer /\ page.beatsOf = page.audioBuffer

\* C28 as stated: at most one live-BPM tracking timer is active, and none
\* when playback is stopped.
C28_AsStated ==
  /\ page.timers <= 1
  /\ ~page.sourceNode => page.timers = 0

-----------------------------------------------------------------------------
(* The worker-based analyzer. *)

\* nothing is being read, queued, decoded or on its way back
Settled ==
  /\ worker.reading = {} /\ worker.decoding = {}
  /\ worker.inbox = <<>> /\ worker.outbox = <<>>

\* C29 as stated: once everything has settled, and every selected file was
\* read and posted, the display shows the result of the most recently
\* selected file, and the replies applied so far are those of the first
\* files posted, in the order of posting.
\* the replies come back in the order the worker took the messages
RepliesInOrder == worker.applied = SubSeq(worker.posted, 1, Len(worker.applied))

C29_AsStated ==
  /\ Settled /\ worker.selected > 0 /\ Len(worker.posted) = worker.selected =>
       worker.display.file = worker.selected
  /\ RepliesInOrder

-----------------------------------------------------------------------------
(* estimateDynamicTempo. *)

\* the window starts 0, hop, 2 * hop, ... below length - windowSamples
WindowStarts(c) ==
  {k \in 0..c.length :
     k * Samples(c.hopSize, _detectSampleRate(c.sr))
       < c.length - Samples(c.windowSize, _detectSampleRate(c.sr))}

\* the call has returned lists of equal length with one entry per window start
DynamicReturned ==
  /\ pc = "done"
  /\ ret.kind = "return"
  /\ Len(ret.times) = Len(ret.tempo)
  /\ Len(ret.times) = Cardinality(WindowStarts(call))
  /\ \A k \in 1..Len(ret.times) :
       ret.times[k] = Ratio((k - 1) * Samples(call.hopSize, _detectSampleRate(call.sr)),
                            _detectSampleRate(call.sr))

\* C30 as stated: every call of estimateDynamicTempo with positive windowSize
\* and hopSize terminates and returns times and tempo lists of equal length
\* with one entry per window start below length - windowSamples.
C30_AsStated ==
  (call.op = "estimateDynamicTempo" /\ call.windowSize > 0 /\ call.hopSize > 0)
    ~> DynamicReturned

====
